---- MODULE Spec2Model ----
(***************************************************************************)
(* Model of the pipette robot controller (software/src/robot.py,           *)
(* labware.py, deck.py).                                                   *)
(*                                                                         *)
(* Units.  Lengths are integers in thousandths of a millimetre, the        *)
(* precision to which move_to / move_relative format a coordinate          *)
(* ("{x:.3f}"); every constant of deck.py and labware.py has at most       *)
(* three decimals.  Volumes are whole microlitres, so volume * u_per_ul    *)
(* (0.06 -> 60 thousandths per microlitre) is exact.  Feedrates are        *)
(* mm/min ("{feedrate:.0f}").  Times are milliseconds.                     *)
(*                                                                         *)
(* An optional value (Python None or a value) is <<>> or <<v>>.            *)
(* A text (a well name, a line of the firmware) is a sequence of           *)
(* one-character strings.                                                  *)
(***************************************************************************)
EXTENDS Integers, Sequences, FiniteSets, TLC

VARIABLES
    ser,              \* Robot._ser: "none" (None) or "open"
    current_syringe,  \* Robot.current_syringe: <<>> or <<name>>
    op,               \* the public call in progress, [kind |-> "idle"] when none
    prog,             \* the statements of the call in progress, in program order
    pc,               \* index in prog of the next statement
    wire,             \* the command lines written to the firmware by this call
    status,           \* "idle", "running", "returned" or "raised"
    err,              \* the exception raised: "" or its kind
    timeouts,         \* TRUE when the wait of a command of this call timed out
    sawError,         \* TRUE when the firmware sent an error line during this call
    fwMode,           \* positioning mode set by the last G90/G91 written
    lastZ,            \* last absolute Z written: <<>> or <<z>>
    rx,               \* serial input buffer: raw lines not yet read
    clock,            \* time.time()
    start,            \* _drain_until_ok_or_timeout: start
    waitTo,           \* _drain_until_ok_or_timeout: overall_timeout
    reads,            \* the lines _read_line returned during the current wait
    sstat,            \* send_gcode: "idle", "waiting", "sent", "ok", "timeout", "raise"
    refused,          \* the last call refused on a closed port: <<>> or <<call record>>
    protocol_steps,   \* PipetteGUI.protocol_steps: the step list being run
    idx,              \* on_run_protocol: index of the step being run
    gstat,            \* on_run_protocol: "idle", "running", "finished" or "failed"
    ran,              \* the steps whose _run_single_step was entered, with what each wrote
    report,           \* the text of the error log line and dialog: <<>> or the message
    ret,              \* the value a call of a coordinate function returned: <<>> or <<x, y>>
    fwq,              \* the lines the firmware has still to write, each with its command
    rxFor,            \* for each line of rx, the number of the command it answers
    readFor,          \* for each line of reads, the command it answers (0: nothing read)
    hist              \* what is remembered of the calls that are over (see SpecSeq)

vars == <<ser, current_syringe, op, prog, pc, wire, status, err, timeouts, sawError,
          fwMode, lastZ, rx, clock, start, waitTo, reads, sstat, refused,
          protocol_steps, idx, gstat, ran, report, ret, fwq, rxFor, readFor, hist>>

chorVars == <<op, prog, pc, wire, status, err, timeouts, sawError, fwMode, lastZ>>
sendVars == <<rx, clock, start, waitTo, reads, sstat>>
guiVars == <<protocol_steps, idx, gstat, ran, report>>
fwVars == <<fwq, rxFor, readFor>>

---------------------------------------------------------------------------
(* Optional values                                                         *)

None == <<>>
Some(v) == <<v>>
IsNone(o) == o = <<>>

\* Python's "a or b" on an optional number: None and 0.0 are both falsy.
OrElse(o, d) == IF o = <<>> THEN d ELSE IF o[1] = 0 THEN d ELSE o[1]

---------------------------------------------------------------------------
(* Text helpers: str.upper, str.lower, str.strip, startswith, in, int, ord *)

UpperCase == <<"A","B","C","D","E","F","G","H","I","J","K","L","M",
               "N","O","P","Q","R","S","T","U","V","W","X","Y","Z">>
LowerCase == <<"a","b","c","d","e","f","g","h","i","j","k","l","m",
               "n","o","p","q","r","s","t","u","v","w","x","y","z">>
Digits == <<"0","1","2","3","4","5","6","7","8","9">>

IndexIn(c, s) == IF \E i \in 1..Len(s) : s[i] = c
                 THEN CHOOSE i \in 1..Len(s) : s[i] = c
                 ELSE 0

Letters == {UpperCase[i] : i \in 1..26} \cup {LowerCase[i] : i \in 1..26}

\* str.lower and str.upper of one character, tabulated for the letters.
LowerTable == [c \in Letters |->
                 IF IndexIn(c, UpperCase) > 0 THEN LowerCase[IndexIn(c, UpperCase)] ELSE c]
UpperTable == [c \in Letters |->
                 IF IndexIn(c, LowerCase) > 0 THEN UpperCase[IndexIn(c, LowerCase)] ELSE c]

LowerOf(c) == IF c \in Letters THEN LowerTable[c] ELSE c
UpperOf(c) == IF c \in Letters THEN UpperTable[c] ELSE c

Lower(s) == [i \in 1..Len(s) |-> LowerOf(s[i])]
Upper(s) == [i \in 1..Len(s) |-> UpperOf(s[i])]

IsSpace(c) == c \in {" ", "\n", "\r", "\t"}

RECURSIVE LStrip(_)
LStrip(s) == IF s = <<>> THEN s
             ELSE IF IsSpace(Head(s)) THEN LStrip(Tail(s)) ELSE s

RECURSIVE RStrip(_)
RStrip(s) == IF s = <<>> THEN s
             ELSE IF IsSpace(s[Len(s)]) THEN RStrip(SubSeq(s, 1, Len(s) - 1)) ELSE s

Strip(s) == RStrip(LStrip(s))

StartsWith(s, p) == Len(s) >= Len(p) /\ SubSeq(s, 1, Len(p)) = p

Contains(s, p) == \E i \in 0..(Len(s) - Len(p)) : SubSeq(s, i + 1, i + Len(p)) = p

\* ord(c): ASCII code of the characters the model uses.
OrdTable == [c \in Letters \cup {Digits[i] : i \in 1..10} |->
               IF IndexIn(c, UpperCase) > 0 THEN 64 + IndexIn(c, UpperCase)
               ELSE IF IndexIn(c, LowerCase) > 0 THEN 96 + IndexIn(c, LowerCase)
               ELSE 47 + IndexIn(c, Digits)]

Ord(c) == IF c \in DOMAIN OrdTable THEN OrdTable[c] ELSE 32

IsDigits(s) == s # <<>> /\ \A i \in 1..Len(s) : IndexIn(s[i], Digits) > 0

\* int(s) for a text of decimal digits.
RECURSIVE ParseInt(_)
ParseInt(s) == IF s = <<>> THEN 0
               ELSE 10 * ParseInt(SubSeq(s, 1, Len(s) - 1)) + (IndexIn(s[Len(s)], Digits) - 1)

---------------------------------------------------------------------------
(* deck.py                                                                 *)

DECK_LAYOUT ==
    [ origin_machine |-> [x |-> -8000, y |-> -5000],
      slots |-> [ s \in {"1", "2", "3", "4", "5", "6"} |->
                    [ x |-> IF s \in {"1", "3", "5"} THEN 90900 ELSE 242100,
                      y |-> IF s \in {"1", "2"} THEN 70000
                            ELSE IF s \in {"3", "4"} THEN 170000 ELSE 270000 ] ] ]

\* Deck.__init__: the slot table of a deck.
DeckSlots == DOMAIN DECK_LAYOUT.slots

DeckSlot(slot_id) == [ slot_id |-> slot_id,
                       x_deck |-> DECK_LAYOUT.slots[slot_id].x,
                       y_deck |-> DECK_LAYOUT.slots[slot_id].y ]

deck_to_machine(x_deck, y_deck) ==
    << DECK_LAYOUT.origin_machine.x + x_deck, DECK_LAYOUT.origin_machine.y + y_deck >>

\* self.slots[slot_id] of Deck.slot_center_machine and deck.slots[slot_id]
\* of the robot's actions: the slot, or KeyError.
slot_lookup(slot_id) ==
    IF slot_id \in DeckSlots THEN [ok |-> TRUE, err |-> ""]
    ELSE [ok |-> FALSE, err |-> "KeyError: slot"]

\* Deck.slot_center_machine for a registered slot (self.slots[slot_id]
\* raises KeyError otherwise; the callers below test membership first).
slot_center_machine(slot_id) ==
    deck_to_machine(DeckSlot(slot_id).x_deck, DeckSlot(slot_id).y_deck)

---------------------------------------------------------------------------
(* labware.py                                                              *)

\* Mutant: the coefficient the comment beside it gives (0.5 U per uL).
Syringe_1ml_half == [ name |-> "1ml", max_volume_ul |-> 1000, u_per_ul |-> 500,
                      u_base |-> 5000, u_min |-> Some(0), u_max |-> Some(65000) ]

Syringe_1ml == [ name |-> "1ml", max_volume_ul |-> 1000, u_per_ul |-> 60,
                 u_base |-> 5000, u_min |-> Some(0), u_max |-> Some(65000) ]

SYRINGES == [ n \in {"1ml"} |-> Syringe_1ml ]

LABWARE_TIPRACK_96 ==
    [ name |-> "tiprack_96", rows |-> 8, cols |-> 12,
      pitch_x |-> 9000, pitch_y |-> 9000, offset_x |-> -49700, offset_y |-> -31500,
      safe_z |-> 100000, bottom_z |-> 0,
      aspirate_z |-> None, dispense_z |-> None,
      tip_touch_z |-> Some(170000), tip_press_z |-> Some(172000),
      tip_full_z |-> Some(176000), scrape_z |-> Some(152000) ]

LABWARE_TIPWASTE_BOX ==
    [ name |-> "tip_waste_box", rows |-> 1, cols |-> 1,
      pitch_x |-> 0, pitch_y |-> 0, offset_x |-> 0, offset_y |-> 0,
      safe_z |-> 100000, bottom_z |-> 0,
      aspirate_z |-> None, dispense_z |-> None,
      tip_touch_z |-> None, tip_press_z |-> None,
      tip_full_z |-> None, scrape_z |-> Some(170000) ]

LABWARE_48WELL_10MM ==
    [ name |-> "48well_10mm", rows |-> 6, cols |-> 8,
      pitch_x |-> 12470, pitch_y |-> 12470, offset_x |-> -43880, offset_y |-> -32040,
      safe_z |-> 158000, bottom_z |-> 170000,
      aspirate_z |-> None, dispense_z |-> None,
      tip_touch_z |-> None, tip_press_z |-> None,
      tip_full_z |-> None, scrape_z |-> None ]

LABWARE_BEAKER_1WELL ==
    [ name |-> "beaker_1well", rows |-> 1, cols |-> 1,
      pitch_x |-> 0, pitch_y |-> 0, offset_x |-> 0, offset_y |-> 0,
      safe_z |-> 100000, bottom_z |-> 150000,
      aspirate_z |-> Some(150000), dispense_z |-> Some(150000),
      tip_touch_z |-> None, tip_press_z |-> None,
      tip_full_z |-> None, scrape_z |-> None ]

\* LabwareInstance._well_rc: <<row, col>> of a well name, or the exception.
\* well[0] of an empty text raises IndexError, int() of a non-number ValueError.
RowInRange(t, row) == 0 <= row /\ row < t.rows
ColInRange(t, col) == 0 <= col /\ col < t.cols

_well_rc(t, well) ==
    LET w == Upper(Strip(well)) IN
    IF w = <<>> THEN [ok |-> FALSE, err |-> "IndexError", rc |-> <<0, 0>>]
    ELSE IF ~IsDigits(Tail(w))
    THEN [ok |-> FALSE, err |-> "ValueError: invalid literal", rc |-> <<0, 0>>]
    ELSE LET col == ParseInt(Tail(w)) - 1
             row == Ord(Head(w)) - Ord("A")
         IN IF ~RowInRange(t, row)
            THEN [ok |-> FALSE, err |-> "ValueError: Row out of range", rc |-> <<row, col>>]
            ELSE IF ~ColInRange(t, col)
            THEN [ok |-> FALSE, err |-> "ValueError: Column out of range", rc |-> <<row, col>>]
            ELSE [ok |-> TRUE, err |-> "", rc |-> <<row, col>>]

\* Mutant: row and column are exchanged.
well_position_deck_swapped(t, slot_id, well) ==
    LET rc == _well_rc(t, well).rc IN
    << DeckSlot(slot_id).x_deck + t.offset_x + rc[1] * t.pitch_x,
       DeckSlot(slot_id).y_deck + t.offset_y + rc[2] * t.pitch_y >>

\* LabwareInstance.well_position_deck, for a well _well_rc accepts.
well_position_deck(t, slot_id, well) ==
    LET rc == _well_rc(t, well).rc IN
    << DeckSlot(slot_id).x_deck + t.offset_x + rc[2] * t.pitch_x,
       DeckSlot(slot_id).y_deck + t.offset_y + rc[1] * t.pitch_y >>

well_position_machine(t, slot_id, well) ==
    LET d == well_position_deck(t, slot_id, well) IN deck_to_machine(d[1], d[2])

---------------------------------------------------------------------------
(* robot.py: the line protocol                                             *)

\* Lines of firmware output, as the bytes readline returns them.
L_ok == <<"o", "k">>
L_OK == <<"O", "K">>
L_ok_sp == <<" ", "o", "k", "\r">>
L_busy == <<"e", "c", "h", "o", ":", "b", "u", "s", "y">>
L_Error == <<"E", "r", "r", "o", "r", ":", "k">>
L_ERROR == <<"p", ":", "E", "R", "R", "O", "R">>
L_none == <<>>

\* Robot._read_line: the decoded, stripped line; "" when nothing was read.
_read_line(raw) == IF raw = <<>> THEN <<>> ELSE Strip(raw)

\* Mutant: only the case-sensitive prefix test.
IsErrorLine_prefix(line) == StartsWith(line, <<"E", "r", "r", "o", "r">>)

IsErrorLine(line) ==
    StartsWith(line, <<"E", "r", "r", "o", "r">>)
    \/ Contains(Lower(line), <<"e", "r", "r", "o", "r">>)

IsOkLine(line) == Lower(Strip(line)) = <<"o", "k">>

\* Mutant: the elapsed time is compared with twice the timeout.
TimeoutElapsed_late(now, began, overall_timeout) ==
    /\ ~IsNone(overall_timeout)
    /\ overall_timeout[1] > 0
    /\ now - began > overall_timeout[1] + overall_timeout[1]

TimeoutElapsed(now, began, overall_timeout) ==
    /\ ~IsNone(overall_timeout)
    /\ overall_timeout[1] > 0
    /\ now - began > overall_timeout[1]

\* Mutant: an error line is skipped like any other line.
DrainIter_swallows(line, now, began, overall_timeout) ==
    IF line # <<>> /\ Lower(Strip(line)) = <<"o", "k">> THEN "ok"
    ELSE IF line # <<>> /\ Contains(Lower(line), <<"e", "r", "r", "o", "r">>) THEN "ok"
    ELSE IF ~IsNone(overall_timeout) /\ overall_timeout[1] > 0
            /\ now - began > overall_timeout[1] THEN "timeout"
    ELSE "continue"

\* Mutant: the timeout raises instead of returning.
DrainIter_timeout_raises(line, now, began, overall_timeout) ==
    IF line # <<>> /\ Contains(Lower(line), <<"e", "r", "r", "o", "r">>) THEN "raise"
    ELSE IF line # <<>> /\ Lower(Strip(line)) = <<"o", "k">> THEN "ok"
    ELSE IF ~IsNone(overall_timeout) /\ overall_timeout[1] > 0
            /\ now - began > overall_timeout[1] THEN "raise"
    ELSE "continue"

\* One iteration of the loop of Robot._drain_until_ok_or_timeout, on the
\* line just read and the time after the read.
DrainIter(line, now, began, overall_timeout) ==
    IF line # <<>> /\ IsErrorLine(line) THEN "raise"
    ELSE IF line # <<>> /\ IsOkLine(line) THEN "ok"
    ELSE IF TimeoutElapsed(now, began, overall_timeout) THEN "timeout"
    ELSE "continue"

\* Robot._drain_until_ok_or_timeout on a script of reads, each read a record
\* [raw, at]: the bytes readline returned and the time since start when it
\* returned.  "blocked" when the script ends with the loop still reading.
RECURSIVE Drain(_, _)
Drain(script, overall_timeout) ==
    IF script = <<>> THEN "blocked"
    ELSE LET r == DrainIter(_read_line(Head(script).raw), Head(script).at, 0, overall_timeout)
         IN IF r = "continue" THEN Drain(Tail(script), overall_timeout) ELSE r

Rd(raw, at) == [raw |-> raw, at |-> at]

\* What the firmware may answer to one command that waits with a positive
\* timeout: scripts of reads that end the wait.  A run of empty reads is
\* written as its last read.
Scripts(overall_timeout) ==
    LET late == overall_timeout[1] + 1 IN
    { << Rd(L_ok, 1) >>,
      << Rd(L_busy, 1), Rd(L_ok_sp, 2) >>,
      << Rd(L_Error, 1) >>,
      << Rd(L_busy, 1), Rd(L_ERROR, 2) >>,
      << Rd(L_none, late) >>,
      << Rd(L_busy, 1), Rd(L_busy, late) >> }

---------------------------------------------------------------------------
(* robot.py: statements of a call and the motion primitives                *)

\* A command line is the list "parts" that the code joins with spaces; a
\* part is <<letter, number>> or <<letter>>.
G1 == <<"G", 1>>
G4 == <<"G", 4>>
G28 == <<"G", 28>>
G90 == <<"G", 90>>
G91 == <<"G", 91>>
M114 == <<"M", 114>>

SendDefaultTimeout == 9999000
MoveDefaultTimeout == 999000
DwellGrace == 5000

Send(cmd, wait_ok, overall_timeout) ==
    [k |-> "send", cmd |-> cmd, wait |-> wait_ok, to |-> overall_timeout, err |-> ""]
Raise(e) ==
    [k |-> "raise", cmd |-> <<>>, wait |-> FALSE, to |-> None, err |-> e]

\* Robot.send_gcode with its defaults.
send_gcode(gcode) == << Send(gcode, TRUE, Some(SendDefaultTimeout)) >>

\* Robot.dwell; seconds is given in milliseconds.
dwell(ms) == << Send(<<G4, <<"P", ms>>>>, TRUE, Some(ms + DwellGrace)) >>

\* Robot.home(axes, timeout): G28 with the axis letters of `axes` that are
\* among X, Y, Z, U, in the order given.
HomeAxis(c) == c \in {"X", "Y", "Z", "U"}
home(axes, timeout) ==
    LET up == SelectSeq(Upper(axes), HomeAxis)
    IN << Send(<<G28>> \o [i \in 1..Len(up) |-> <<up[i]>>], TRUE, Some(timeout)) >>

\* Mutant: the absolute-mode command is not written.
set_absolute_mode_skipped == <<>>

set_absolute_mode == send_gcode(<<G90>>)
set_relative_mode == send_gcode(<<G91>>)

\* Robot.home_all(timeout): a plain G28, then "G1 U5 F200" with the
\* defaults of send_gcode, in whatever mode the firmware is in.
home_all(timeout) ==
    << Send(<<G28>>, TRUE, Some(timeout)) >>
    \o send_gcode(<<G1, <<"U", 5000>>, <<"F", 200>>>>)

Part(letter, o) == IF IsNone(o) THEN <<>> ELSE << <<letter, o[1]>> >>

\* Robot.move_to; x, y, z, u, feedrate are optional.
move_to_within(x, y, z, u, feedrate, overall_timeout) ==
    << Send(<<G1>> \o Part("X", x) \o Part("Y", y) \o Part("Z", z) \o Part("U", u)
                 \o Part("F", feedrate),
            TRUE, overall_timeout) >>

\* Robot.move_to with the default overall_timeout.
move_to(x, y, z, u, feedrate) == move_to_within(x, y, z, u, feedrate, Some(MoveDefaultTimeout))

DeltaPart(letter, d) == IF d # 0 THEN << <<letter, d>> >> ELSE <<>>

\* Mutant: the mode is not switched back.
move_relative_stays(dx, dy, dz, du, feedrate) ==
    send_gcode(<<G91>>)
    \o << Send(<<G1>> \o DeltaPart("X", dx) \o DeltaPart("Y", dy) \o DeltaPart("Z", dz)
                    \o DeltaPart("U", du) \o Part("F", feedrate),
               TRUE, Some(MoveDefaultTimeout)) >>

\* Robot.move_relative.
move_relative(dx, dy, dz, du, feedrate) ==
    set_relative_mode
    \o << Send(<<G1>> \o DeltaPart("X", dx) \o DeltaPart("Y", dy) \o DeltaPart("Z", dz)
                    \o DeltaPart("U", du) \o Part("F", feedrate),
               TRUE, Some(MoveDefaultTimeout)) >>
    \o set_absolute_mode

\* Robot.move_relative with an overall_timeout given: it is the timeout of
\* the G1 only; G91 and G90 wait with the default of send_gcode.
move_relative_within(dx, dy, dz, du, feedrate, overall_timeout) ==
    set_relative_mode
    \o << Send(<<G1>> \o DeltaPart("X", dx) \o DeltaPart("Y", dy) \o DeltaPart("Z", dz)
                    \o DeltaPart("U", du) \o Part("F", feedrate),
               TRUE, overall_timeout) >>
    \o set_absolute_mode

move_z(z, feedrate) == move_to(None, None, Some(z), None, Some(feedrate))
move_xy(x, y, feedrate) == move_to(Some(x), Some(y), None, None, Some(feedrate))
move_u(u, feedrate) == move_to(None, None, None, Some(u), Some(feedrate))

---------------------------------------------------------------------------
(* robot.py: syringe selection                                             *)

\* Mutant: the current selection is preferred to the name given.
_get_syringe_current_first(syringe_name, cur) ==
    IF ~IsNone(cur)
    THEN [ok |-> TRUE, err |-> "", syr |-> SYRINGES[cur[1]]]
    ELSE IF IsNone(syringe_name)
         THEN [ok |-> FALSE, err |-> "RuntimeError: No syringe selected", syr |-> Syringe_1ml]
         ELSE IF syringe_name[1] \notin DOMAIN SYRINGES
              THEN [ok |-> FALSE, err |-> "KeyError: Unknown syringe type", syr |-> Syringe_1ml]
              ELSE [ok |-> TRUE, err |-> "", syr |-> SYRINGES[syringe_name[1]]]

\* Robot._get_syringe; cur is Robot.current_syringe.
_get_syringe(syringe_name, cur) ==
    IF ~IsNone(syringe_name)
    THEN IF syringe_name[1] \notin DOMAIN SYRINGES
         THEN [ok |-> FALSE, err |-> "KeyError: Unknown syringe type", syr |-> Syringe_1ml]
         ELSE [ok |-> TRUE, err |-> "", syr |-> SYRINGES[syringe_name[1]]]
    ELSE IF IsNone(cur)
         THEN [ok |-> FALSE, err |-> "RuntimeError: No syringe selected", syr |-> Syringe_1ml]
         ELSE [ok |-> TRUE, err |-> "", syr |-> SYRINGES[cur[1]]]

---------------------------------------------------------------------------
(* robot.py: the high-level actions, each as its statements in order.      *)
(* A statement that raises ends the call; what is written after it is      *)
(* never executed.                                                         *)

RECURSIVE Repeat(_, _)
Repeat(body, n) == IF n <= 0 THEN <<>> ELSE body \o Repeat(body, n - 1)

\* well_position_machine followed by the XY move_to that uses it.
move_to_well(t, slot_id, well, feed_xy) ==
    IF ~_well_rc(t, well).ok THEN << Raise(_well_rc(t, well).err) >>
    ELSE LET p == well_position_machine(t, slot_id, well) IN move_xy(p[1], p[2], feed_xy)

TipDwell == 200

\* Mutant: one cycle too many.
tip_cycles_extra(z_press, z_touch, n_cycles) ==
    Repeat(move_z(z_press, 600) \o dwell(TipDwell) \o move_z(z_touch, 600) \o dwell(TipDwell),
           n_cycles + 1)

\* The up-down cycles of pick_up_tip: for _ in range(n_cycles).
tip_cycles(z_press, z_touch, n_cycles) ==
    Repeat(move_z(z_press, 600) \o dwell(TipDwell) \o move_z(z_touch, 600) \o dwell(TipDwell),
           n_cycles)

\* Robot.pick_up_tip(deck, slot_id, well, n_cycles)
pick_up_tip(slot_id, well, n_cycles) ==
    LET t == LABWARE_TIPRACK_96 IN
    IF slot_id \notin DeckSlots THEN << Raise("KeyError: slot") >>
    ELSE IF IsNone(t.tip_touch_z) \/ IsNone(t.tip_press_z) \/ IsNone(t.tip_full_z)
    THEN << Raise("RuntimeError: Tiprack LabwareType missing tip Z settings") >>
    ELSE LET z_safe == t.safe_z
             z_touch == t.tip_touch_z[1]
             z_press == t.tip_press_z[1]
             z_full == t.tip_full_z[1]
         IN set_absolute_mode
            \o move_z(z_safe, 750)
            \o move_to_well(t, slot_id, well, 7500)
            \o move_z(z_touch, 750) \o dwell(TipDwell)
            \o tip_cycles(z_press, z_touch, n_cycles)
            \o move_z(z_full, 750) \o dwell(TipDwell)
            \o move_z(z_press, 750)
            \o move_z(z_safe, 600)

SlotHalfWidth == 64000
ExtraScrape == 20000

\* The lateral scrape stroke of drop_tip_scrape, or the ValueError.
\* Mutant: the scrape goes to the left edge whatever the edge.
scrape_move_left(cx, cy, edge, slot_half_width, extra_scrape) ==
    IF edge \in {"left", "right"} THEN move_xy(cx - slot_half_width - extra_scrape, cy, 2000)
    ELSE << Raise("ValueError: edge must be 'left' or 'right'") >>

scrape_move(cx, cy, edge, slot_half_width, extra_scrape) ==
    IF edge = "left" THEN move_xy(cx - slot_half_width - extra_scrape, cy, 2000)
    ELSE IF edge = "right" THEN move_xy(cx + slot_half_width + extra_scrape, cy, 2000)
    ELSE << Raise("ValueError: edge must be 'left' or 'right'") >>

\* Mutant: the slot is looked up after the lift to the safe height.
drop_tip_scrape_late(slot_id, edge) ==
    LET t == LABWARE_TIPWASTE_BOX IN
    set_absolute_mode
    \o move_z(t.safe_z, 600)
    \o IF slot_id \notin DeckSlots THEN << Raise("KeyError: slot") >>
       ELSE LET c == slot_center_machine(slot_id)
            IN move_xy(c[1], c[2], 7500)
               \o move_z(t.scrape_z[1], 750)
               \o scrape_move(c[1], c[2], edge, SlotHalfWidth, ExtraScrape)
               \o move_z(t.safe_z, 600)

\* Robot.drop_tip_scrape(deck, slot_id, edge)
drop_tip_scrape(slot_id, edge) ==
    LET t == LABWARE_TIPWASTE_BOX IN
    IF slot_id \notin DeckSlots THEN << Raise("KeyError: slot") >>
    ELSE IF IsNone(t.scrape_z)
    THEN << Raise("RuntimeError: Tip waste LabwareType missing scrape_z") >>
    ELSE LET z_safe == t.safe_z
             z_scrape == t.scrape_z[1]
             c == slot_center_machine(slot_id)
         IN set_absolute_mode
            \o move_z(z_safe, 600)
            \o move_xy(c[1], c[2], 7500)
            \o move_z(z_scrape, 750)
            \o scrape_move(c[1], c[2], edge, SlotHalfWidth, ExtraScrape)
            \o move_z(z_safe, 600)

\* The calibration checks of transfer_volume: "" or the ValueError.
travel_check(syr, u_base, u_asp) ==
    IF ~IsNone(syr.u_min) /\ u_base < syr.u_min[1] THEN "ValueError: u_base below syringe u_min"
    ELSE IF ~IsNone(syr.u_max) /\ u_asp > syr.u_max[1]
    THEN "ValueError: U travel exceeds syringe u_max"
    ELSE ""

\* The aspirate phase of transfer_volume.
transfer_aspirate_phase(t_src, src_slot, src_well, u_base, u_asp) ==
    LET z_safe_src == t_src.safe_z
        z_asp == OrElse(t_src.aspirate_z, t_src.bottom_z)
    IN move_u(u_base, 200)
       \o move_z(z_safe_src, 300)
       \o move_to_well(t_src, src_slot, src_well, 3000)
       \o move_z(z_asp, 200)
       \o move_u(u_asp, 200)
       \o move_z(z_safe_src, 300)

\* Mutant: the tip stays at the dispense height, without the last lift.
transfer_dispense_phase_stays(t_dst, dst_slot, dst_well, u_base) ==
    move_z(t_dst.safe_z, 300)
    \o move_to_well(t_dst, dst_slot, dst_well, 3000)
    \o move_z(OrElse(t_dst.dispense_z, t_dst.bottom_z), 200)
    \o move_u(u_base, 200)

\* Mutant: the descent to the dispense height comes before the XY move.
transfer_dispense_phase_early(t_dst, dst_slot, dst_well, u_base) ==
    move_z(t_dst.safe_z, 300)
    \o move_z(OrElse(t_dst.dispense_z, t_dst.bottom_z), 200)
    \o move_to_well(t_dst, dst_slot, dst_well, 3000)
    \o move_u(u_base, 200)
    \o move_z(t_dst.safe_z, 300)

\* The dispense phase of transfer_volume.
transfer_dispense_phase(t_dst, dst_slot, dst_well, u_base) ==
    LET z_safe_dst == t_dst.safe_z
        z_disp == OrElse(t_dst.dispense_z, t_dst.bottom_z)
    IN move_z(z_safe_dst, 300)
       \o move_to_well(t_dst, dst_slot, dst_well, 3000)
       \o move_z(z_disp, 200)
       \o move_u(u_base, 200)
       \o move_z(z_safe_dst, 300)

\* Robot.transfer_volume(deck, src_slot, src_well, dst_slot, dst_well,
\*                       volume_ul, syringe) with the default feedrates
\* (feed_xy 3000, feed_z_down 200, feed_z_up 300, feed_u 200).
transfer_volume(src_slot, src_well, dst_slot, dst_well, volume_ul, syringe, cur) ==
    LET g == _get_syringe(syringe, cur)
        syr == g.syr
        dU == volume_ul * syr.u_per_ul
        u_base == syr.u_base
        u_asp == u_base + dU
    IN IF ~g.ok THEN << Raise(g.err) >>
       ELSE IF travel_check(syr, u_base, u_asp) # "" THEN << Raise(travel_check(syr, u_base, u_asp)) >>
       ELSE IF src_slot \notin DeckSlots THEN << Raise("KeyError: slot") >>
       ELSE IF dst_slot \notin DeckSlots THEN << Raise("KeyError: slot") >>
       ELSE set_absolute_mode
            \o transfer_aspirate_phase(LABWARE_48WELL_10MM, src_slot, src_well, u_base, u_asp)
            \o transfer_dispense_phase(LABWARE_48WELL_10MM, dst_slot, dst_well, u_base)

---------------------------------------------------------------------------
(* transfer_volume in the arithmetic of the interpreter: volume_ul, the     *)
(* calibration and the plunger targets are IEEE-754 doubles, computed       *)
(* exactly and rounded to nearest, ties to even.  A natural number is the   *)
(* sequence of its binary digits, least significant first; a double is      *)
(* [m, e] with value m * 2^e and m of 53 digits (no digits for zero).       *)

RECURSIVE Binary(_)
Binary(n) == IF n = 0 THEN <<>> ELSE << n % 2 >> \o Binary(n \div 2)

RECURSIVE Trim(_)
Trim(b) == IF b # <<>> /\ b[Len(b)] = 0 THEN Trim(SubSeq(b, 1, Len(b) - 1)) ELSE b

RECURSIVE BigValue(_)
BigValue(b) == IF b = <<>> THEN 0 ELSE Head(b) + 2 * BigValue(Tail(b))

Zeros(n) == [i \in 1..n |-> 0]

Digit(b, i) == IF i \in 1..Len(b) THEN b[i] ELSE 0

\* Column sums to binary digits, fourteen columns at a time.
RECURSIVE Carry(_, _)
Carry(cols, c) ==
    IF Len(cols) <= 14 THEN Binary(BigValue(cols) + c)
    ELSE LET v == BigValue(SubSeq(cols, 1, 14)) + c
             d == Binary(v % 16384)
         IN d \o Zeros(14 - Len(d)) \o Carry(SubSeq(cols, 15, Len(cols)), v \div 16384)

BigAdd(a, b) ==
    Trim(Carry([j \in 1..(IF Len(a) > Len(b) THEN Len(a) ELSE Len(b)) |->
                    Digit(a, j) + Digit(b, j)], 0))

BigMul(a, b) ==
    IF a = <<>> \/ b = <<>> THEN <<>>
    ELSE Trim(Carry([j \in 1..(Len(a) + Len(b) - 1) |->
                        Cardinality({i \in 1..Len(a) : Digit(b, j - i + 1) = 1 /\ a[i] = 1})],
                    0))

BigGreater(a, b) ==
    \E i \in 1..Len(a) :
        /\ Digit(a, i) > Digit(b, i)
        /\ \A j \in (i + 1)..(IF Len(a) > Len(b) THEN Len(a) ELSE Len(b)) :
               Digit(a, j) = Digit(b, j)

\* The number n * 2^e (n > 0 in binary) with n cut to k digits below its top
\* digit, rounded to nearest, ties to even: [q, e'] with q * 2^e' the result.
RoundAt(n, e, k) ==
    LET t == Trim(n)
        s == Len(t) - k
        q == SubSeq(t, s + 1, Len(t))
        up == /\ t[s] = 1
              /\ ((\E i \in 1..(s - 1) : t[i] = 1) \/ q[1] = 1)
    IN IF s <= 0 THEN [q |-> t, e |-> e]
       ELSE [q |-> IF up THEN BigAdd(q, <<1>>) ELSE q, e |-> e + s]

\* The double nearest to n * 2^e: a mantissa of 53 digits.
RoundToDouble(n, e) ==
    IF Trim(n) = <<>> THEN [m |-> <<>>, e |-> 0]
    ELSE LET r == RoundAt(n, e, 53)
             short == 53 - Len(r.q)
         IN IF short >= 0 THEN [m |-> Zeros(short) \o r.q, e |-> r.e - short]
            ELSE [m |-> Tail(r.q), e |-> r.e + 1]

\* float(n) of a natural number n.
Double(n) == RoundToDouble(Binary(n), 0)

\* A double from the hexadecimal digits of its mantissa, first digit first.
RECURSIVE FromHex(_)
FromHex(h) ==
    IF h = <<>> THEN <<>>
    ELSE LET d == Binary(h[Len(h)])
         IN d \o Zeros(4 - Len(d)) \o FromHex(SubSeq(h, 1, Len(h) - 1))

Aligned(a, b) ==
    LET lo == IF a.e < b.e THEN a.e ELSE b.e
    IN [a |-> Zeros(a.e - lo) \o a.m, b |-> Zeros(b.e - lo) \o b.m, e |-> lo]

fmul(a, b) == RoundToDouble(BigMul(a.m, b.m), a.e + b.e)
fadd(a, b) == LET p == Aligned(a, b) IN RoundToDouble(BigAdd(p.a, p.b), p.e)
fgt(a, b) == LET p == Aligned(a, b) IN BigGreater(p.a, p.b)

\* f"{x:.3f}" of a double x, in thousandths: x * 1000 rounded to the nearest
\* integer, ties to even.
Milli(x) ==
    LET n == BigMul(x.m, Binary(1000))
    IN IF x.m = <<>> THEN 0
       ELSE IF x.e >= 0 THEN BigValue(Zeros(x.e) \o n)
       ELSE IF Len(n) <= -x.e THEN (IF Len(n) = -x.e /\ Cardinality({i \in 1..Len(n) : n[i] = 1}) > 1
                                   THEN 1 ELSE 0)
       ELSE BigValue(RoundAt(n, x.e, Len(n) + x.e).q)

\* Mutant: the travel of the syringe ends at 66.
Syringe_1ml_double_wide ==
    [ name |-> "1ml", max_volume_ul |-> Double(1000),
      u_per_ul |-> [m |-> Trim(FromHex(<<1, 14, 11, 8, 5, 1, 14, 11, 8, 5, 1, 14, 11, 8>>)),
                    e |-> -57],
      u_base |-> Double(5), u_min |-> Some(Double(0)), u_max |-> Some(Double(66)) ]

\* 0.06 is 0x1.eb851eb851eb8p-5.
Syringe_1ml_double ==
    [ name |-> "1ml", max_volume_ul |-> Double(1000),
      u_per_ul |-> [m |-> Trim(FromHex(<<1, 14, 11, 8, 5, 1, 14, 11, 8, 5, 1, 14, 11, 8>>)),
                    e |-> -57],
      u_base |-> Double(5), u_min |-> Some(Double(0)), u_max |-> Some(Double(65)) ]

SYRINGES_double == [ n \in {"1ml"} |-> Syringe_1ml_double ]

\* transfer_volume with volume_ul a double: the checks of the travel, then
\* the commands with the plunger targets as they are formatted.
transfer_volume_double(src_slot, src_well, dst_slot, dst_well, volume_ul, syringe, cur) ==
    LET g == _get_syringe(syringe, cur)
        syr == SYRINGES_double[g.syr.name]
        dU == fmul(volume_ul, syr.u_per_ul)
        u_base == syr.u_base
        u_asp == fadd(u_base, dU)
    IN IF ~g.ok THEN << Raise(g.err) >>
       ELSE IF ~IsNone(syr.u_min) /\ fgt(syr.u_min[1], u_base)
       THEN << Raise("ValueError: u_base below syringe u_min") >>
       ELSE IF ~IsNone(syr.u_max) /\ fgt(u_asp, syr.u_max[1])
       THEN << Raise("ValueError: U travel exceeds syringe u_max") >>
       ELSE IF src_slot \notin DeckSlots THEN << Raise("KeyError: slot") >>
       ELSE IF dst_slot \notin DeckSlots THEN << Raise("KeyError: slot") >>
       ELSE set_absolute_mode
            \o transfer_aspirate_phase(LABWARE_48WELL_10MM, src_slot, src_well,
                                       Milli(u_base), Milli(u_asp))
            \o transfer_dispense_phase(LABWARE_48WELL_10MM, dst_slot, dst_well, Milli(u_base))

\* Mutant: the reservoir is approached like a plate, XY first.
approach_well_xy_first(t, slot_id, well, feed_z_up, feed_xy) ==
    move_to_well(t, slot_id, well, feed_xy)

\* The approach of addressed-mode aspirate and dispense: for the beaker the
\* lift to its safe height and then the XY move, otherwise the XY move only.
approach_well(t, slot_id, well, feed_z_up, feed_xy) ==
    IF t = LABWARE_BEAKER_1WELL
    THEN move_z(t.safe_z, feed_z_up) \o move_to_well(t, slot_id, well, feed_xy)
    ELSE move_to_well(t, slot_id, well, feed_xy)

\* Mutant: the plunger is sent to the travel as an absolute target.
plunger_stroke_absolute(du, feed_u) == move_u(du, feed_u)

\* The plunger stroke of aspirate and dispense: move_relative(du=..., feedrate=feed_u).
plunger_stroke(du, feed_u) == move_relative(0, 0, 0, du, Some(feed_u))

\* Robot.aspirate(volume_ul, syringe, deck, slot_id, labware_type, well,
\*                z_safe, z_aspirate) with the default feedrates; deck is
\* TRUE when a Deck is passed.
aspirate(volume_ul, syringe, deck, slot_id, labware_type, well, z_safe, z_aspirate, cur) ==
    LET g == _get_syringe(syringe, cur)
        dU == volume_ul * g.syr.u_per_ul
        feed_xy == 7500
        feed_z_down == 600
        feed_z_up == 750
        feed_u == 200
    IN IF ~g.ok THEN << Raise(g.err) >>
       ELSE set_absolute_mode \o
            IF deck /\ ~IsNone(slot_id) /\ ~IsNone(well)
            THEN IF slot_id[1] \notin DeckSlots THEN << Raise("KeyError: slot") >>
                 ELSE LET t == labware_type
                          z_safe_local == t.safe_z
                          z_asp_local == OrElse(t.aspirate_z, t.bottom_z)
                      IN approach_well(t, slot_id[1], well[1], feed_z_up, feed_xy)
                         \o move_z(z_asp_local, feed_z_down)
                         \o plunger_stroke(dU, feed_u)
                         \o move_z(z_safe_local, feed_z_up)
            ELSE IF IsNone(z_safe) \/ IsNone(z_aspirate)
            THEN << Raise("ValueError: current-XY needs z_safe and z_aspirate") >>
            ELSE move_z(z_safe[1], feed_z_up)
                 \o move_z(z_aspirate[1], feed_z_down)
                 \o plunger_stroke(dU, feed_u)
                 \o move_z(z_safe[1], feed_z_up)

\* Robot.dispense(volume_ul, syringe, deck, slot_id, labware_type, well,
\*                z_safe, z_dispense) with the default feedrates.
dispense(volume_ul, syringe, deck, slot_id, labware_type, well, z_safe, z_dispense, cur) ==
    LET g == _get_syringe(syringe, cur)
        dU == volume_ul * g.syr.u_per_ul
        feed_xy == 7500
        feed_z_down == 600
        feed_z_up == 750
        feed_u == 200
    IN IF ~g.ok THEN << Raise(g.err) >>
       ELSE set_absolute_mode \o
            IF deck /\ ~IsNone(slot_id) /\ ~IsNone(well)
            THEN IF slot_id[1] \notin DeckSlots THEN << Raise("KeyError: slot") >>
                 ELSE LET t == labware_type
                          z_safe_local == t.safe_z
                          z_disp_local == OrElse(t.dispense_z, t.bottom_z)
                      IN approach_well(t, slot_id[1], well[1], feed_z_up, feed_xy)
                         \o move_z(z_disp_local, feed_z_down)
                         \o plunger_stroke(-dU, feed_u)
                         \o move_z(z_safe_local, feed_z_up)
            ELSE IF IsNone(z_safe) \/ IsNone(z_dispense)
            THEN << Raise("ValueError: current-XY needs z_safe and z_dispense") >>
            ELSE move_z(z_safe[1], feed_z_up)
                 \o move_z(z_dispense[1], feed_z_down)
                 \o plunger_stroke(-dU, feed_u)
                 \o move_z(z_safe[1], feed_z_up)

\* The statements of a call, from its record.
Plan(o, cur) ==
    CASE o.kind = "pick_up_tip" -> pick_up_tip(o.slot_id, o.well, o.n_cycles)
      [] o.kind = "drop_tip_scrape" -> drop_tip_scrape(o.slot_id, o.edge)
      [] o.kind = "transfer_volume" ->
            transfer_volume(o.src_slot, o.src_well, o.dst_slot, o.dst_well,
                            o.volume_ul, o.syringe, cur)
      [] o.kind = "aspirate" ->
            aspirate(o.volume_ul, o.syringe, o.deck, o.slot_id, o.labware_type,
                     o.well, o.z_safe, o.z_work, cur)
      [] o.kind = "dispense" ->
            dispense(o.volume_ul, o.syringe, o.deck, o.slot_id, o.labware_type,
                     o.well, o.z_safe, o.z_work, cur)
      [] o.kind = "move_relative" ->
            move_relative(o.dx, o.dy, o.dz, o.du, o.feedrate)
      [] o.kind = "home" -> home(o.axes, o.timeout)
      [] o.kind = "home_all" -> home_all(o.timeout)
      [] o.kind = "set_absolute_mode" -> set_absolute_mode
      [] o.kind = "set_relative_mode" -> set_relative_mode
      [] o.kind = "dwell" -> dwell(o.ms)
      [] o.kind = "send_gcode" -> << Send(o.gcode, o.wait_ok, o.overall_timeout) >>
      [] o.kind = "move_to" ->
            move_to_within(o.x, o.y, None, None, o.feedrate, o.overall_timeout)
      [] o.kind = "move_relative_within" ->
            move_relative_within(o.dx, o.dy, o.dz, o.du, o.feedrate, o.overall_timeout)

---------------------------------------------------------------------------
(* Inputs of the calls                                                     *)

MaxCycles == 2

W_A1 == <<"A", "1">>
W_B3 == <<"B", "3">>
W_G2 == <<"G", "2">>
W_A9 == <<"A", "9">>
W_I1 == <<"I", "1">>
W_A13 == <<"A", "1", "3">>

SlotIds == {"1", "2", "4", "9"}
TipWells == {W_A1, W_B3, W_G2, W_I1, W_A13}
PlateSlots == {"4", "9"}
Volumes == {-100, 0, 50, 1000, 1001}
SyringeArgs == {None, Some("1ml"), Some("10ml")}
Edges == {"left", "right", "up"}
LabwareArgs == {LABWARE_48WELL_10MM, LABWARE_BEAKER_1WELL}
Jogs == { <<0, 0, 0, 0>>, <<1000, 0, 0, 0>>, <<0, 0, 0, 500>>, <<0, 0, 0, -500>> }

PickArgs ==
    { [kind |-> "pick_up_tip", slot_id |-> s, well |-> w, n_cycles |-> n] :
        s \in SlotIds, w \in TipWells, n \in 0..MaxCycles }

DropArgs ==
    { [kind |-> "drop_tip_scrape", slot_id |-> s, edge |-> e] : s \in SlotIds, e \in Edges }

TransferArgs ==
    { [kind |-> "transfer_volume", src_slot |-> ss, src_well |-> sw, dst_slot |-> ds,
       dst_well |-> dw, volume_ul |-> v, syringe |-> y] :
        ss \in PlateSlots, sw \in {W_A1, W_G2}, ds \in {"2", "4", "9"}, dw \in {W_B3, W_A9},
        v \in Volumes, y \in SyringeArgs }

\* Addressed calls (deck, slot and well), current-position calls (the two
\* heights), calls that give neither completely, and calls that give the
\* two heights together with a slot, with or without a well.
LiquidArgs(kind) ==
    { [kind |-> kind, volume_ul |-> v, syringe |-> y, deck |-> TRUE, slot_id |-> Some(s),
       labware_type |-> t, well |-> w, z_safe |-> None, z_work |-> None] :
        v \in {50, 1001}, y \in SyringeArgs, s \in PlateSlots, t \in LabwareArgs,
        w \in {None, Some(W_A1), Some(W_B3), Some(W_A9)} }
    \cup
    { [kind |-> kind, volume_ul |-> v, syringe |-> y, deck |-> FALSE, slot_id |-> None,
       labware_type |-> LABWARE_48WELL_10MM, well |-> None, z_safe |-> zs, z_work |-> zw] :
        v \in {50, 1001}, y \in SyringeArgs, zs \in {None, Some(100000)},
        zw \in {None, Some(150000)} }
    \cup
    { [kind |-> kind, volume_ul |-> 50, syringe |-> Some("1ml"), deck |-> TRUE,
       slot_id |-> Some("4"), labware_type |-> LABWARE_48WELL_10MM, well |-> w,
       z_safe |-> Some(100000), z_work |-> Some(150000)] : w \in {None, Some(W_A1)} }

\* LabwareType instances a caller builds and passes as labware_type: a plate
\* whose aspirate and dispense heights are set, to 0.0 (the top of the Z
\* travel) or to a height above the well bottom.
PLATE_HEIGHTS_ZERO ==
    [LABWARE_48WELL_10MM EXCEPT !.name = "plate_heights_zero",
                                !.aspirate_z = Some(0), !.dispense_z = Some(0)]
PLATE_HEIGHTS_SET ==
    [LABWARE_48WELL_10MM EXCEPT !.name = "plate_heights_set",
                                !.aspirate_z = Some(165000), !.dispense_z = Some(166000)]

CustomLiquidArgs ==
    { [kind |-> k, volume_ul |-> 50, syringe |-> Some("1ml"), deck |-> TRUE,
       slot_id |-> Some("4"), labware_type |-> t, well |-> Some(W_A1),
       z_safe |-> None, z_work |-> None] :
        k \in {"aspirate", "dispense"}, t \in {PLATE_HEIGHTS_ZERO, PLATE_HEIGHTS_SET} }

\* transfer_volume called without its syringe argument: the parameter takes
\* its default, the name "10ml".
TransferDefaultSyringe == "10ml"

TransferDefaultArgs ==
    { [kind |-> "transfer_volume", src_slot |-> "4", src_well |-> W_A1, dst_slot |-> ds,
       dst_well |-> W_B3, volume_ul |-> 50, syringe |-> Some(TransferDefaultSyringe),
       defaulted |-> TRUE] : ds \in {"2", "4"} }

JogArgs(mode) ==
    { [kind |-> "move_relative", dx |-> j[1], dy |-> j[2], dz |-> j[3], du |-> j[4],
       feedrate |-> f, mode0 |-> mode] : j \in Jogs, f \in {None, Some(200)} }

---------------------------------------------------------------------------
(* The calls as a state machine: one statement at a time, in program order *)

Idle == [kind |-> "idle"]

HasPart(cmd, letter) == \E i \in 2..Len(cmd) : cmd[i][1] = letter
PartOf(cmd, letter) == cmd[CHOOSE i \in 2..Len(cmd) : cmd[i][1] = letter][2]
IsG1(cmd) == cmd # <<>> /\ cmd[1] = G1

\* The firmware's positioning mode after a command line is written.
ModeAfter(mode, cmd) ==
    IF cmd = <<G90>> THEN "abs" ELSE IF cmd = <<G91>> THEN "rel" ELSE mode

\* The last commanded Z after a command line is written.
ZAfter(z, mode, cmd) ==
    IF IsG1(cmd) /\ HasPart(cmd, "Z")
    THEN IF mode = "abs" THEN Some(PartOf(cmd, "Z"))
         ELSE IF IsNone(z) THEN None ELSE Some(z[1] + PartOf(cmd, "Z"))
    ELSE z

\* Robot.__init__(port, auto_connect): connect() is called when auto_connect.
InitRobot(auto_connect) ==
    /\ ser = IF auto_connect THEN "open" ELSE "none"
    /\ current_syringe = None
    /\ op = Idle
    /\ prog = <<>>
    /\ pc = 1
    /\ wire = <<>>
    /\ status = "idle"
    /\ err = ""
    /\ timeouts = FALSE
    /\ sawError = FALSE
    /\ fwMode = "abs"
    /\ lastZ = None
    /\ rx = <<>>
    /\ clock = 0
    /\ start = 0
    /\ waitTo = None
    /\ reads = <<>>
    /\ sstat = "idle"
    /\ refused = None
    /\ protocol_steps = <<>>
    /\ idx = 0
    /\ gstat = "idle"
    /\ ran = <<>>
    /\ report = <<>>
    /\ ret = <<>>
    /\ fwq = <<>>
    /\ rxFor = <<>>
    /\ readFor = <<>>
    /\ hist = [clean |-> TRUE, prev |-> None]

\* The robot as the programs construct it: auto_connect defaults to True.
Init == InitRobot(TRUE)

\* Robot.connect: returns at once when the port is open; otherwise opens it
\* and clears the input buffer.
Connect ==
    /\ status = "idle"
    /\ IF ser = "open"
       THEN UNCHANGED <<ser, rx>>
       ELSE ser' = "open" /\ rx' = <<>>
    /\ UNCHANGED <<hist, fwVars, ret, current_syringe, chorVars, clock, start, waitTo, reads, sstat, refused,
                   guiVars>>

\* Robot.disconnect: closes the port and forgets it.
Disconnect ==
    /\ status = "idle"
    /\ ser' = "none"
    /\ UNCHANGED <<hist, fwVars, ret, current_syringe, chorVars, sendVars, refused, guiVars>>

\* Robot.set_syringe(syringe_name)
SetSyringe ==
    /\ status = "idle"
    /\ \E name \in {"1ml", "10ml"} :
         /\ op' = [kind |-> "set_syringe", name |-> name]
         /\ IF name \notin DOMAIN SYRINGES
            THEN /\ status' = "raised"
                 /\ err' = "KeyError: Unknown syringe type"
                 /\ UNCHANGED current_syringe
            ELSE /\ status' = "returned"
                 /\ err' = ""
                 /\ current_syringe' = Some(name)
    /\ prog' = <<>>
    /\ pc' = 1
    /\ wire' = <<>>
    /\ timeouts' = FALSE
    /\ sawError' = FALSE
    /\ UNCHANGED <<hist, fwVars, ser, refused, guiVars, ret, fwMode, lastZ, sendVars>>

\* The body of a call of the robot begins.
Begin(o) ==
    /\ status = "idle"
    /\ op' = o
    /\ prog' = Plan(o, current_syringe)
    /\ pc' = 1
    /\ wire' = <<>>
    /\ status' = "running"
    /\ err' = ""
    /\ timeouts' = FALSE
    /\ sawError' = FALSE
    /\ UNCHANGED <<fwMode, lastZ>>

\* A call of a high-level action enters its body.
Enter(o) ==
    /\ gstat = "idle"
    /\ Begin(o)
    /\ UNCHANGED <<hist, fwVars, ser, refused, guiVars, ret, current_syringe, sendVars>>

CallPickUpTip == \E o \in PickArgs : Enter(o)
CallDropTipScrape == \E o \in DropArgs : Enter(o)
CallTransferVolume == \E o \in TransferArgs : Enter(o)
CallTransferVolumeDefault == \E o \in TransferDefaultArgs : Enter(o)
CallAspirate == \E o \in LiquidArgs("aspirate") : Enter(o)
CallDispense == \E o \in LiquidArgs("dispense") : Enter(o)
CallMoveRelative == \E o \in JogArgs(fwMode) : Enter(o)
CallLiquidCustomType == \E o \in CustomLiquidArgs : Enter(o)

AtStatement == status = "running" /\ pc <= Len(prog)

\* A statement that raises: the exception leaves the call.
ExecRaise ==
    /\ AtStatement
    /\ prog[pc].k = "raise"
    /\ status' = "raised"
    /\ err' = prog[pc].err
    /\ UNCHANGED <<hist, fwVars, ser, refused, guiVars, ret, current_syringe, op, prog, pc, wire, timeouts, sawError, fwMode, lastZ,
                   sendVars>>

\* Mutant: _write_line without _ensure_connected.
ExecSendNotConnected_writes ==
    /\ status = "running" /\ pc <= Len(prog)
    /\ prog[pc].k = "send"
    /\ ser # "open"
    /\ wire' = Append(wire, prog[pc].cmd)
    /\ pc' = pc + 1
    /\ UNCHANGED <<hist, fwVars, ser, refused, guiVars, ret, current_syringe, op, prog, status, err, timeouts,
                   sawError, fwMode, lastZ, sendVars>>

\* send_gcode on a closed port: _write_line's _ensure_connected raises.
ExecSendNotConnected ==
    /\ AtStatement
    /\ prog[pc].k = "send"
    /\ ser # "open"
    /\ status' = "raised"
    /\ err' = "RuntimeError: Serial not connected"
    /\ refused' = Some(op)
    /\ UNCHANGED <<hist, fwVars, ser, guiVars, ret, current_syringe, op, prog, pc, wire, timeouts, sawError, fwMode, lastZ,
                   sendVars>>

\* _write_line of send_gcode: the line goes out.
Written(cmd) ==
    /\ wire' = Append(wire, cmd)
    /\ fwMode' = ModeAfter(fwMode, cmd)
    /\ lastZ' = ZAfter(lastZ, fwMode, cmd)

\* Mutant: a command whose wait timed out is sent again.
AfterWait_retries(r) ==
    IF r = "raise"
    THEN /\ status' = "raised"
         /\ err' = "RuntimeError: Firmware error"
         /\ UNCHANGED <<pc, timeouts>>
    ELSE /\ pc' = IF r = "timeout" THEN pc ELSE pc + 1
         /\ timeouts' = (timeouts \/ r = "timeout")
         /\ UNCHANGED <<status, err>>

\* What a send_gcode does after its wait ended with outcome r.
AfterWait(r) ==
    IF r = "raise"
    THEN /\ status' = "raised"
         /\ err' = "RuntimeError: Firmware error"
         /\ UNCHANGED <<pc, timeouts>>
    ELSE /\ pc' = pc + 1
         /\ timeouts' = (timeouts \/ r = "timeout")
         /\ UNCHANGED <<status, err>>

\* TRUE when a read of the script is an error line of the firmware.
ScriptHasError(script) ==
    \E i \in 1..Len(script) : Strip(script[i].raw) \in {Strip(L_Error), Strip(L_ERROR)}

\* send_gcode of the next statement, its wait ending with outcome r.
ExecSend(r) ==
    /\ AtStatement
    /\ prog[pc].k = "send"
    /\ ser = "open"
    /\ \E script \in Scripts(prog[pc].to) :
         /\ Drain(script, prog[pc].to) = r
         /\ sawError' = (sawError \/ ScriptHasError(script))
    /\ Written(prog[pc].cmd)
    /\ AfterWait(r)
    /\ UNCHANGED <<hist, fwVars, ser, refused, guiVars, ret, current_syringe, op, prog, sendVars>>

ExecSendOk == ExecSend("ok")
ExecSendTimeout == ExecSend("timeout")
ExecSendError == ExecSend("raise")

\* The body ran to its end: the call returns.
Return ==
    /\ status = "running"
    /\ pc > Len(prog)
    /\ status' = "returned"
    /\ UNCHANGED <<hist, fwVars, ser, refused, guiVars, ret, current_syringe, op, prog, pc, wire, err, timeouts, sawError, fwMode,
                   lastZ, sendVars>>

\* The call of the robot is over and its caller goes on.
End ==
    /\ status \in {"returned", "raised"}
    /\ status' = "idle"
    /\ op' = Idle
    /\ prog' = <<>>
    /\ pc' = 1
    /\ wire' = <<>>
    /\ err' = ""
    /\ timeouts' = FALSE
    /\ sawError' = FALSE
    /\ UNCHANGED <<fwMode, lastZ>>

\* The caller has the result; the next call may start.
Finish ==
    /\ gstat = "idle"
    /\ End
    /\ UNCHANGED <<hist, fwVars, ser, refused, guiVars, ret, current_syringe, sendVars>>

---------------------------------------------------------------------------
(* send_gcode one read at a time, against a firmware that writes lines     *)
(* into the serial input buffer.                                           *)

MaxSends == 2
MaxReads == 3
MaxRx == 2
SerialTimeout == 1000

FwLines == {L_ok_sp, L_OK, L_busy, L_Error, L_ERROR}
SendTimeouts == {None, Some(0), Some(1500), Some(2500)}
SendCmds == { <<G90>>, <<G1, <<"Z", 100000>>>> }

\* Robot.send_gcode(gcode, wait_ok, overall_timeout): _write_line, then the
\* wait begins (start = time.time()) when wait_ok.
SendGcode ==
    /\ op = Idle
    /\ sstat = "idle"
    /\ Len(wire) < MaxSends
    /\ \E gcode \in SendCmds, wait_ok \in BOOLEAN, overall_timeout \in SendTimeouts :
         IF ser # "open"
         THEN /\ sstat' = "notconnected"
              /\ UNCHANGED <<wire, fwMode, lastZ, start, waitTo>>
         ELSE /\ Written(gcode)
              /\ sstat' = IF wait_ok THEN "waiting" ELSE "sent"
              /\ start' = clock
              /\ waitTo' = overall_timeout
    /\ reads' = <<>>
    /\ UNCHANGED <<hist, fwVars, ser, refused, guiVars, ret, current_syringe, op, prog, pc, status, err, timeouts, sawError,
                   rx, clock>>

\* One iteration of the wait loop: _read_line returned `raw` at time `now`.
WaitIter(raw, now) ==
    LET line == _read_line(raw) IN
    /\ reads' = Append(reads, line)
    /\ clock' = now
    /\ sstat' = LET r == DrainIter(line, now, start, waitTo)
                IN IF r = "continue" THEN "waiting" ELSE r

\* readline returns a line that is in the input buffer, at once or after
\* waiting for the rest of it.
ReadData ==
    /\ sstat = "waiting"
    /\ Len(reads) < MaxReads
    /\ rx # <<>>
    /\ \E dt \in {0, 500} : WaitIter(Head(rx), clock + dt)
    /\ rx' = Tail(rx)
    /\ UNCHANGED <<hist, fwVars, ser, refused, guiVars, ret, current_syringe, chorVars, start, waitTo>>

\* readline finds nothing for the serial timeout and returns no bytes.
ReadEmpty ==
    /\ sstat = "waiting"
    /\ Len(reads) < MaxReads
    /\ rx = <<>>
    /\ WaitIter(<<>>, clock + SerialTimeout)
    /\ UNCHANGED <<hist, fwVars, ser, refused, guiVars, ret, current_syringe, chorVars, rx, start, waitTo>>

\* The firmware writes a line.
FwEmit ==
    /\ Len(rx) < MaxRx
    /\ \E line \in FwLines : rx' = Append(rx, line)
    /\ UNCHANGED <<hist, fwVars, ser, refused, guiVars, ret, current_syringe, chorVars, clock, start, waitTo, reads, sstat>>

\* send_gcode is over, by return or by exception; time is counted from the
\* end of the call.
SendDone ==
    /\ sstat \in {"ok", "timeout", "raise", "sent", "notconnected"}
    /\ sstat' = "idle"
    /\ reads' = <<>>
    /\ clock' = 0
    /\ start' = 0
    /\ waitTo' = None
    /\ UNCHANGED <<hist, fwVars, ser, refused, guiVars, ret, current_syringe, chorVars, rx>>

NextSend ==
    \/ SendGcode
    \/ ReadData
    \/ ReadEmpty
    \/ FwEmit
    \/ SendDone

SpecSend == Init /\ [][NextSend]_vars

---------------------------------------------------------------------------
(* get_position and send_gcode against a firmware that answers each        *)
(* command in turn: the lines of its answer reach the input buffer some     *)
(* time after the command was written.                                      *)

QueryReads == 20

\* str.replace(",", " ").split(): the tokens between runs of white space.
CommaToSpace(line) == [i \in 1..Len(line) |-> IF line[i] = "," THEN " " ELSE line[i]]

RECURSIVE SplitWs(_, _)
SplitWs(line, cur) ==
    IF line = <<>> THEN (IF cur = <<>> THEN <<>> ELSE <<cur>>)
    ELSE IF IsSpace(Head(line))
         THEN (IF cur = <<>> THEN <<>> ELSE <<cur>>) \o SplitWs(Tail(line), <<>>)
         ELSE SplitWs(Tail(line), Append(cur, Head(line)))

Split(line) == SplitWs(line, <<>>)

\* p.split(":", 1) of a token that has a colon: <<key, val>>.
KeyVal(p) ==
    LET at == CHOOSE i \in 1..Len(p) : p[i] = ":" /\ \A j \in 1..(i - 1) : p[j] # ":"
    IN << SubSeq(p, 1, at - 1), SubSeq(p, at + 1, Len(p)) >>

\* The digits before and after the decimal point of a numeral, its sign
\* apart: <<integer part, fraction>>.
Numeral(val) ==
    LET t == IF val # <<>> /\ Head(val) \in {"-", "+"} THEN Tail(val) ELSE val
        dot == IF \E i \in 1..Len(t) : t[i] = "." THEN CHOOSE i \in 1..Len(t) : t[i] = "." ELSE 0
    IN IF dot = 0 THEN << t, <<>> >> ELSE << SubSeq(t, 1, dot - 1), SubSeq(t, dot + 1, Len(t)) >>

\* float(val) accepts the text: a decimal numeral with an optional sign and
\* up to three decimals; any other text of the model is a ValueError.
IsFloat(val) ==
    LET n == Numeral(val) IN
    /\ \A i \in 1..Len(n[1]) : IndexIn(n[1][i], Digits) > 0
    /\ \A i \in 1..Len(n[2]) : IndexIn(n[2][i], Digits) > 0
    /\ Len(n[2]) <= 3
    /\ Len(n[1]) + Len(n[2]) > 0

\* float(val), in thousandths.
Float(val) ==
    LET n == Numeral(val)
        f == n[2] \o SubSeq(<<"0", "0", "0">>, 1, 3 - Len(n[2]))
        m == 1000 * ParseInt(n[1]) + ParseInt(f)
    IN IF val # <<>> /\ Head(val) = "-" THEN 0 - m ELSE m

\* pos[key] = value
Put(pos, key, value) == [k \in DOMAIN pos \cup {key} |-> IF k = key THEN value ELSE pos[k]]
EmptyPos == [k \in {} |-> 0]

\* The loop over the tokens of get_position: a token with a colon whose
\* key is X, Y, Z or U and whose value float() accepts is entered in pos.
RECURSIVE ParseTokens(_, _)
ParseTokens(parts, pos) ==
    IF parts = <<>> THEN pos
    ELSE LET q == Head(parts) IN
         IF Contains(q, <<":">>) /\ KeyVal(q)[1] \in {<<"X">>, <<"Y">>, <<"Z">>, <<"U">>}
            /\ IsFloat(KeyVal(q)[2])
         THEN ParseTokens(Tail(parts), Put(pos, KeyVal(q)[1][1], Float(KeyVal(q)[2])))
         ELSE ParseTokens(Tail(parts), pos)

ParsePosition(line) == ParseTokens(Split(CommaToSpace(line)), EmptyPos)

\* Mutant: any axis tag marks the line of the position report.
IsPositionLine_any_axis(line) ==
    \/ Contains(line, <<"X", ":">>) \/ Contains(line, <<"Y", ":">>)
    \/ Contains(line, <<"Z", ":">>) \/ Contains(line, <<"U", ":">>)

\* The test of get_position for the line of the position report: "X:" in line.
IsPositionLine(line) == Contains(line, <<"X", ":">>)

\* Lines of a position report.
L_pos == <<"X", ":", "1", ".", "5", " ", "Y", ":", "2", " ", "Z", ":", "3", " ", "U", ":", "4">>
L_pos_comma == <<"X", ":", "1", ",", "Y", ":", "-", "2", "\r">>
L_pos_yz == <<"Y", ":", "2", " ", "Z", ":", "3">>
L_pos_bad == <<"X", ":", "a", " ", "Z", ":", "9">>

\* What the firmware may answer to a command: the lines, in order.
Answers(cmd) ==
    IF cmd = <<M114>>
    THEN { <<L_pos, L_ok>>, <<L_pos_yz, L_pos, L_ok>>, <<L_busy, L_pos_comma, L_ok>>,
           <<L_pos_bad, L_ok>>, <<L_ok>> }
    ELSE { <<L_ok>> }

Tagged(lines, n) == [i \in 1..Len(lines) |-> [line |-> lines[i], for |-> n]]

\* Robot.send_gcode(gcode): the line goes out, the firmware will answer it,
\* and the wait begins.
SendCommand ==
    /\ op = Idle
    /\ sstat = "idle"
    /\ ser = "open"
    /\ Len(wire) < MaxSends
    /\ \E gcode \in {<<G1, <<"Z", 100000>>>>} : \E answer \in Answers(gcode) :
         /\ Written(gcode)
         /\ fwq' = fwq \o Tagged(answer, Len(wire) + 1)
    /\ sstat' = "waiting"
    /\ start' = clock
    /\ waitTo' = Some(1500)
    /\ reads' = <<>>
    /\ readFor' = <<>>
    /\ UNCHANGED <<hist, ser, refused, guiVars, ret, current_syringe, op, prog, pc, status, err,
                   timeouts, sawError, rx, rxFor, clock>>

\* The firmware writes the next line of its answers.
FwAnswer ==
    /\ fwq # <<>>
    /\ rx' = Append(rx, Head(fwq).line)
    /\ rxFor' = Append(rxFor, Head(fwq).for)
    /\ fwq' = Tail(fwq)
    /\ UNCHANGED <<hist, ser, refused, guiVars, ret, current_syringe, chorVars, clock, start, waitTo,
                   reads, readFor, sstat>>

\* One iteration of the wait loop on a line of the input buffer.
WaitData ==
    /\ sstat = "waiting"
    /\ rx # <<>>
    /\ WaitIter(Head(rx), clock)
    /\ rx' = Tail(rx)
    /\ rxFor' = Tail(rxFor)
    /\ readFor' = Append(readFor, Head(rxFor))
    /\ UNCHANGED <<hist, ser, refused, guiVars, ret, current_syringe, chorVars, start, waitTo, fwq>>

\* One iteration of the wait loop when readline returns nothing.
WaitEmpty ==
    /\ sstat = "waiting"
    /\ rx = <<>>
    /\ WaitIter(<<>>, clock + SerialTimeout)
    /\ readFor' = Append(readFor, 0)
    /\ UNCHANGED <<hist, ser, refused, guiVars, ret, current_syringe, chorVars, rx, rxFor, start,
                   waitTo, fwq>>

\* Robot.get_position up to its loop: _ensure_connected, _write_line("M114").
GetPosition ==
    /\ op = Idle
    /\ sstat = "idle"
    /\ ser = "open"
    /\ Len(wire) < MaxSends
    /\ Written(<<M114>>)
    /\ \E answer \in Answers(<<M114>>) : fwq' = fwq \o Tagged(answer, Len(wire) + 1)
    /\ op' = [kind |-> "get_position", written |-> Len(wire)]
    /\ sstat' = "querying"
    /\ reads' = <<>>
    /\ readFor' = <<>>
    /\ ret' = <<>>
    /\ UNCHANGED <<hist, ser, refused, guiVars, current_syringe, prog, pc, status, err, timeouts,
                   sawError, rx, rxFor, clock, start, waitTo>>

\* One turn of "for _ in range(20)" on the line _read_line returned: an
\* empty line is skipped, the line of the position report is parsed and
\* returned, and after the last turn the empty mapping is returned.
QueryIter(raw) ==
    LET line == _read_line(raw) IN
    /\ reads' = Append(reads, line)
    /\ IF line # <<>> /\ IsPositionLine(line)
       THEN sstat' = "position" /\ ret' = Some(ParsePosition(line))
       ELSE IF Len(reads) + 1 = QueryReads
            THEN sstat' = "position" /\ ret' = Some(EmptyPos)
            ELSE sstat' = "querying" /\ ret' = <<>>

QueryData ==
    /\ sstat = "querying"
    /\ rx # <<>>
    /\ QueryIter(Head(rx))
    /\ rx' = Tail(rx)
    /\ rxFor' = Tail(rxFor)
    /\ readFor' = Append(readFor, Head(rxFor))
    /\ UNCHANGED <<hist, ser, refused, guiVars, current_syringe, chorVars, clock, start, waitTo, fwq>>

QueryEmpty ==
    /\ sstat = "querying"
    /\ rx = <<>>
    /\ QueryIter(<<>>)
    /\ readFor' = Append(readFor, 0)
    /\ UNCHANGED <<hist, ser, refused, guiVars, current_syringe, chorVars, rx, rxFor, clock, start,
                   waitTo, fwq>>

\* The call is over and its caller goes on; time is counted from there.
CallDone ==
    /\ sstat \in {"ok", "timeout", "raise", "position"}
    /\ sstat' = "idle"
    /\ op' = Idle
    /\ reads' = <<>>
    /\ readFor' = <<>>
    /\ ret' = <<>>
    /\ clock' = 0
    /\ start' = 0
    /\ waitTo' = None
    /\ UNCHANGED <<hist, ser, refused, guiVars, current_syringe, prog, pc, wire, status, err, timeouts,
                   sawError, fwMode, lastZ, rx, rxFor, fwq>>

NextQuery ==
    \/ SendCommand
    \/ GetPosition
    \/ FwAnswer
    \/ WaitData
    \/ WaitEmpty
    \/ QueryData
    \/ QueryEmpty
    \/ CallDone

SpecQuery == Init /\ [][NextQuery]_vars

\* The high-level actions on a port that stays open.
Next ==
    \/ SetSyringe
    \/ CallPickUpTip
    \/ CallDropTipScrape
    \/ CallTransferVolume
    \/ CallTransferVolumeDefault
    \/ CallAspirate
    \/ CallDispense
    \/ CallMoveRelative
    \/ CallLiquidCustomType
    \/ ExecRaise
    \/ ExecSendOk
    \/ ExecSendTimeout
    \/ ExecSendError
    \/ Return
    \/ Finish

Spec == Init /\ [][Next]_vars

\* Calls on a port that is opened and closed between them.
NextConn ==
    \/ Connect
    \/ Disconnect
    \/ CallDropTipScrape
    \/ CallMoveRelative
    \/ ExecRaise
    \/ ExecSendNotConnected
    \/ ExecSendOk
    \/ ExecSendTimeout
    \/ ExecSendError
    \/ Return
    \/ Finish

\* The inputs of home: texts of axis letters in either case, of letters
\* that are no axis, of both, and the empty text.
HomeAxesArgs ==
    { <<>>, <<"X">>, <<"x">>, <<"U">>, <<"Y", "Z">>, <<"X", "Y", "Z", "U">>,
      <<"x", "y", "z", "u">>, <<"Q">>, <<"X", "Q">>, <<"a", "z">>, <<"Z", "Z">>, <<"e", "b">> }

CallHome ==
    \E axes \in HomeAxesArgs :
        Enter([kind |-> "home", axes |-> axes, timeout |-> SendDefaultTimeout])
CallHomeAll == Enter([kind |-> "home_all", timeout |-> SendDefaultTimeout, mode0 |-> fwMode])
CallSetAbsoluteMode == Enter([kind |-> "set_absolute_mode"])
CallSetRelativeMode == Enter([kind |-> "set_relative_mode"])

\* The motion primitives on a port that stays open.
NextPrim ==
    \/ CallHome
    \/ CallHomeAll
    \/ CallSetAbsoluteMode
    \/ CallSetRelativeMode
    \/ CallMoveRelative
    \/ ExecSendOk
    \/ ExecSendTimeout
    \/ ExecSendError
    \/ Return
    \/ Finish

SpecPrim == Init /\ [][NextPrim]_vars

\* A robot constructed with or without auto_connect.
InitConn == \E auto_connect \in BOOLEAN : InitRobot(auto_connect)

SpecConn == InitConn /\ [][NextConn]_vars

---------------------------------------------------------------------------
(* gui.py: the protocol runner.  A step is a record of an optional type    *)
(* and its params; a param that the step does not give is <<>>.  The GUI's *)
(* robot exists exactly while the port is open: on_connect constructs it   *)
(* (auto_connect) and on_disconnect closes the port and drops it.          *)

HomeTimeout == 9999000
DefaultDwell == 1000
DefaultCycles == 2

\* Robot.aspirate_from_beaker / dispense_to_beaker: the call of aspirate /
\* dispense they make.
liquid_call(kind, volume_ul, syringe, slot_id, labware_type, well) ==
    [kind |-> kind, volume_ul |-> volume_ul, syringe |-> syringe, deck |-> TRUE,
     slot_id |-> Some(slot_id), labware_type |-> labware_type, well |-> Some(well),
     z_safe |-> None, z_work |-> None]
\* Mutant: the reservoir is addressed with the geometry of the plate.
aspirate_from_beaker_plate(slot_id, volume_ul, syringe) ==
    liquid_call("aspirate", volume_ul, syringe, slot_id, LABWARE_48WELL_10MM, <<"A", "1">>)

aspirate_from_beaker(slot_id, volume_ul, syringe) ==
    liquid_call("aspirate", volume_ul, syringe, slot_id, LABWARE_BEAKER_1WELL, <<"A", "1">>)
dispense_to_beaker(slot_id, volume_ul, syringe) ==
    liquid_call("dispense", volume_ul, syringe, slot_id, LABWARE_BEAKER_1WELL, <<"A", "1">>)

GuiRaise(e) == [raises |-> TRUE, err |-> e, call |-> [kind |-> "idle"]]
GuiCall(o) == [raises |-> FALSE, err |-> "", call |-> o]

\* The aspirate and dispense branches of _run_single_step.
run_liquid_step(kind, p, syringe_name) ==
    IF IsNone(p.volume_ul) THEN GuiRaise("KeyError: 'volume_ul'")
    ELSE IF IsNone(p.slot) THEN GuiRaise("ValueError: step needs slot")
    ELSE IF ~IsNone(p.well)
         THEN GuiCall(liquid_call(kind, p.volume_ul[1], Some(syringe_name), p.slot[1],
                                  LABWARE_48WELL_10MM, p.well[1]))
         ELSE IF kind = "aspirate"
              THEN GuiCall(aspirate_from_beaker(p.slot[1], p.volume_ul[1], Some(syringe_name)))
              ELSE GuiCall(dispense_to_beaker(p.slot[1], p.volume_ul[1], Some(syringe_name)))

\* Mutant: an unknown step type is run as a homing step.
run_unknown_step_homes ==
    GuiCall([kind |-> "home", axes |-> <<"X", "Y", "Z">>, timeout |-> HomeTimeout])

\* The else branch of _run_single_step.
run_unknown_step == GuiRaise("ValueError: Unknown step type")

\* Mutant: a pick_tip step without a well picks A1.
run_pick_step_default(p) ==
    IF IsNone(p.slot) THEN GuiRaise("KeyError: 'slot'")
    ELSE GuiCall([kind |-> "pick_up_tip", slot_id |-> p.slot[1],
                  well |-> IF IsNone(p.well) THEN <<"A", "1">> ELSE p.well[1],
                  n_cycles |-> DefaultCycles])

\* The pick_tip branch of _run_single_step.
run_pick_step(p) ==
    IF IsNone(p.slot) THEN GuiRaise("KeyError: 'slot'")
    ELSE IF IsNone(p.well) THEN GuiRaise("KeyError: 'well'")
    ELSE GuiCall([kind |-> "pick_up_tip", slot_id |-> p.slot[1], well |-> p.well[1],
                  n_cycles |-> DefaultCycles])

\* PipetteGUI._run_single_step(step): the exception it raises before any
\* call of the robot, or the call of the robot it makes.
_run_single_step(step, var_syringe) ==
    LET p == step.params
        syringe_name == IF IsNone(p.syringe) THEN var_syringe ELSE p.syringe[1]
    IN
    IF step.type = Some("home_xyz")
    THEN GuiCall([kind |-> "home", axes |-> <<"X", "Y", "Z">>, timeout |-> HomeTimeout])
    ELSE IF step.type = Some("pick_tip") THEN run_pick_step(p)
    ELSE IF step.type = Some("drop_tip")
    THEN IF IsNone(p.slot) THEN GuiRaise("KeyError: 'slot'")
         ELSE GuiCall([kind |-> "drop_tip_scrape", slot_id |-> p.slot[1],
                       edge |-> IF IsNone(p.edge) THEN "left" ELSE p.edge[1]])
    ELSE IF step.type = Some("transfer")
    THEN IF IsNone(p.src_slot) THEN GuiRaise("KeyError: 'src_slot'")
         ELSE IF IsNone(p.src_well) THEN GuiRaise("KeyError: 'src_well'")
         ELSE IF IsNone(p.dst_slot) THEN GuiRaise("KeyError: 'dst_slot'")
         ELSE IF IsNone(p.dst_well) THEN GuiRaise("KeyError: 'dst_well'")
         ELSE IF IsNone(p.volume_ul) THEN GuiRaise("KeyError: 'volume_ul'")
         ELSE GuiCall([kind |-> "transfer_volume", src_slot |-> p.src_slot[1],
                       src_well |-> p.src_well[1], dst_slot |-> p.dst_slot[1],
                       dst_well |-> p.dst_well[1], volume_ul |-> p.volume_ul[1],
                       syringe |-> Some(syringe_name)])
    ELSE IF step.type = Some("aspirate") THEN run_liquid_step("aspirate", p, syringe_name)
    ELSE IF step.type = Some("dispense") THEN run_liquid_step("dispense", p, syringe_name)
    ELSE IF step.type = Some("dwell")
    THEN GuiCall([kind |-> "dwell",
                  ms |-> IF IsNone(p.seconds) THEN DefaultDwell ELSE p.seconds[1]])
    ELSE run_unknown_step

\* The steps and the step lists that are run.
MaxSteps == 2

NoParams ==
    [slot |-> None, well |-> None, edge |-> None, src_slot |-> None, src_well |-> None,
     dst_slot |-> None, dst_well |-> None, volume_ul |-> None, syringe |-> None,
     seconds |-> None, z_safe |-> None, z_aspirate |-> None, z_dispense |-> None]

Step(type, params) == [type |-> type, params |-> params]

TransferParams ==
    [NoParams EXCEPT !.src_slot = Some("4"), !.src_well = Some(W_A1), !.dst_slot = Some("2"),
                     !.dst_well = Some(W_B3), !.volume_ul = Some(50)]

StepInputs ==
    { Step(Some("home_xyz"), NoParams),
      Step(Some("pick_tip"), [NoParams EXCEPT !.slot = Some("1"), !.well = Some(W_I1)]),
      Step(Some("pick_tip"), [NoParams EXCEPT !.slot = Some("1")]),
      Step(Some("drop_tip"), [NoParams EXCEPT !.slot = Some("2"), !.edge = Some("right")]),
      Step(Some("drop_tip"), NoParams),
      Step(Some("transfer"), TransferParams),
      Step(Some("transfer"), [TransferParams EXCEPT !.volume_ul = None]),
      Step(Some("aspirate"), [NoParams EXCEPT !.volume_ul = Some(50), !.slot = Some("4"),
                                              !.well = Some(W_B3)]),
      Step(Some("aspirate"), [NoParams EXCEPT !.volume_ul = Some(50), !.slot = Some("2")]),
      Step(Some("aspirate"), [NoParams EXCEPT !.z_safe = Some(152000),
                                              !.z_aspirate = Some(158000),
                                              !.volume_ul = Some(50)]),
      Step(Some("dispense"), [NoParams EXCEPT !.z_safe = Some(152000),
                                              !.z_dispense = Some(158000),
                                              !.volume_ul = Some(50)]),
      Step(Some("aspirate"), [NoParams EXCEPT !.slot = Some("4")]),
      Step(Some("dispense"), [NoParams EXCEPT !.volume_ul = Some(50), !.slot = Some("2")]),
      Step(Some("dispense"), NoParams),
      Step(Some("dwell"), NoParams),
      Step(Some("mix"), [NoParams EXCEPT !.slot = Some("4")]),
      Step(None, [NoParams EXCEPT !.slot = Some("4"), !.well = Some(W_A1)]) }

StepLists == UNION { [1..n -> StepInputs] : n \in 0..MaxSteps }

\* PipetteGUI.__init__: no robot, no steps.
InitGui == InitRobot(FALSE)

\* on_connect: Robot(port) opens the port, then set_syringe(var_syringe).
OnConnect ==
    /\ gstat = "idle"
    /\ status = "idle"
    /\ ser' = "open"
    /\ rx' = <<>>
    /\ current_syringe' = Some("1ml")
    /\ UNCHANGED <<hist, fwVars, ret, chorVars, clock, start, waitTo, reads, sstat, refused, guiVars>>

\* on_disconnect: the port is closed and the robot dropped.
OnDisconnect ==
    /\ gstat = "idle"
    /\ status = "idle"
    /\ ser' = "none"
    /\ current_syringe' = None
    /\ UNCHANGED <<hist, fwVars, ret, chorVars, sendVars, refused, guiVars>>

\* on_run_protocol up to its loop: require_robot, on the step list that was
\* loaded or entered.
OnRunProtocol ==
    /\ gstat = "idle"
    /\ status = "idle"
    /\ \E steps \in StepLists : protocol_steps' = steps
    /\ idx' = 0
    /\ ran' = <<>>
    /\ IF ser # "open"
       THEN gstat' = "failed" /\ report' = Some("RuntimeError: Robot not connected.")
       ELSE gstat' = "running" /\ report' = None
    /\ UNCHANGED <<hist, fwVars, ser, refused, ret, current_syringe, chorVars, sendVars>>

\* One turn of the loop: the step is logged, then _run_single_step either
\* raises or calls the robot.
RunStep ==
    /\ gstat = "running"
    /\ status = "idle"
    /\ idx < Len(protocol_steps)
    /\ idx' = idx + 1
    /\ ran' = Append(ran, [step |-> idx + 1, wrote |-> <<>>])
    /\ LET c == _run_single_step(protocol_steps[idx + 1], "1ml") IN
         IF c.raises
         THEN /\ gstat' = "failed"
              /\ report' = Some(c.err)
              /\ UNCHANGED chorVars
         ELSE /\ Begin(c.call)
              /\ UNCHANGED <<gstat, report>>
    /\ UNCHANGED <<hist, fwVars, ser, refused, ret, current_syringe, protocol_steps, sendVars>>

\* The call of the robot returned: the loop goes on.
StepReturned ==
    /\ gstat = "running"
    /\ status = "returned"
    /\ End
    /\ ran' = [ran EXCEPT ![Len(ran)].wrote = wire]
    /\ UNCHANGED <<hist, fwVars, ser, refused, ret, current_syringe, protocol_steps, idx, gstat, report, sendVars>>

\* Mutant: a step that raised is logged and the loop goes on.
StepRaised_continues ==
    /\ gstat = "running"
    /\ status = "raised"
    /\ End
    /\ ran' = [ran EXCEPT ![Len(ran)].wrote = wire]
    /\ UNCHANGED <<hist, fwVars, ser, refused, ret, current_syringe, protocol_steps, idx, gstat, report, sendVars>>

\* The call of the robot raised: the except clause of on_run_protocol shows
\* and logs the exception.
StepRaised ==
    /\ gstat = "running"
    /\ status = "raised"
    /\ End
    /\ ran' = [ran EXCEPT ![Len(ran)].wrote = wire]
    /\ gstat' = "failed"
    /\ report' = Some(err)
    /\ UNCHANGED <<hist, fwVars, ser, refused, ret, current_syringe, protocol_steps, idx, sendVars>>

\* The loop is over: "Protocol finished." is logged.
ProtocolFinished ==
    /\ gstat = "running"
    /\ status = "idle"
    /\ idx = Len(protocol_steps)
    /\ gstat' = "finished"
    /\ UNCHANGED <<hist, fwVars, ser, refused, ret, current_syringe, chorVars, sendVars, protocol_steps, idx, ran,
                   report>>

\* The handler returned; the next event is handled.
Dismiss ==
    /\ gstat \in {"finished", "failed"}
    /\ gstat' = "idle"
    /\ protocol_steps' = <<>>
    /\ idx' = 0
    /\ ran' = <<>>
    /\ report' = None
    /\ UNCHANGED <<hist, fwVars, ser, refused, ret, current_syringe, chorVars, sendVars>>

NextGui ==
    \/ OnConnect
    \/ OnDisconnect
    \/ OnRunProtocol
    \/ RunStep
    \/ ExecRaise
    \/ ExecSendOk
    \/ ExecSendTimeout
    \/ ExecSendError
    \/ Return
    \/ StepReturned
    \/ StepRaised
    \/ ProtocolFinished
    \/ Dismiss

SpecGui == InitGui /\ [][NextGui]_vars

---------------------------------------------------------------------------
(* deck.py, labware.py: the coordinate functions, called with slots and    *)
(* well names from bounded sets.  A well name is written from a row index, *)
(* a column number, the case of its row letter and its padding, which the  *)
(* call record keeps next to the text.                                     *)

MaxRow == 8
MaxCol == 13

LabwareTypes ==
    {LABWARE_TIPRACK_96, LABWARE_TIPWASTE_BOX, LABWARE_48WELL_10MM, LABWARE_BEAKER_1WELL}

\* The decimal text of a number below 100.
NumberText(n) ==
    IF n < 10 THEN << Digits[n + 1] >> ELSE << Digits[(n \div 10) + 1], Digits[(n % 10) + 1] >>

\* The well name of row index `row` (0 is A) and column number `number`.
WellName(row, number, lower, padded) ==
    LET letter == IF lower THEN LowerCase[row + 1] ELSE UpperCase[row + 1]
        name == << letter >> \o NumberText(number)
    IN IF padded THEN << " " >> \o name \o << " " >> ELSE name

\* Deck.slot_center_machine(slot_id), called by itself.
CallSlotCenter ==
    /\ status = "idle"
    /\ \E s \in SlotIds \cup DeckSlots :
         /\ op' = [kind |-> "slot_center_machine", slot_id |-> s]
         /\ IF slot_lookup(s).ok
            THEN status' = "returned" /\ err' = "" /\ ret' = slot_center_machine(s)
            ELSE status' = "raised" /\ err' = slot_lookup(s).err /\ ret' = <<>>
    /\ UNCHANGED <<hist, fwVars, ser, refused, guiVars, current_syringe, prog, pc, wire, timeouts, sawError,
                   fwMode, lastZ, sendVars>>

\* LabwareInstance.well_position_machine(well) of a labware on a slot.
CallWellPosition ==
    /\ status = "idle"
    /\ \E t \in LabwareTypes, s \in DeckSlots, row \in 0..MaxRow, number \in 0..MaxCol,
          lower \in BOOLEAN, padded \in BOOLEAN :
         LET well == WellName(row, number, lower, padded) IN
         /\ op' = [kind |-> "well_position_machine", labware_type |-> t, slot_id |-> s,
                   well |-> well, row |-> row, number |-> number]
         /\ IF _well_rc(t, well).ok
            THEN status' = "returned" /\ err' = "" /\ ret' = well_position_machine(t, s, well)
            ELSE status' = "raised" /\ err' = _well_rc(t, well).err /\ ret' = <<>>
    /\ UNCHANGED <<hist, fwVars, ser, refused, guiVars, current_syringe, prog, pc, wire, timeouts, sawError,
                   fwMode, lastZ, sendVars>>

\* The caller has the value or the exception.
CoordDone ==
    /\ op.kind \in {"slot_center_machine", "well_position_machine"}
    /\ status' = "idle"
    /\ op' = Idle
    /\ err' = ""
    /\ ret' = <<>>
    /\ UNCHANGED <<hist, fwVars, ser, refused, guiVars, current_syringe, prog, pc, wire, timeouts, sawError,
                   fwMode, lastZ, sendVars>>

NextCoord ==
    \/ CallSlotCenter
    \/ CallWellPosition
    \/ CoordDone

SpecCoord == Init /\ [][NextCoord]_vars

---------------------------------------------------------------------------
(* Sequences of high-level actions on one robot, after homing.  The         *)
(* firmware keeps its mode and the head its height from one call to the     *)
(* next; hist remembers whether every call so far was an addressed action   *)
(* that returned, and the plunger travel of the aspirate that just          *)
(* returned.                                                                *)

RegisteredTypes ==
    {LABWARE_TIPRACK_96, LABWARE_TIPWASTE_BOX, LABWARE_48WELL_10MM, LABWARE_BEAKER_1WELL}

SeqArgs ==
    { [kind |-> "pick_up_tip", slot_id |-> "1", well |-> W_A1, n_cycles |-> 1] }
    \cup
    { [kind |-> "drop_tip_scrape", slot_id |-> "2", edge |-> e] : e \in {"left", "up"} }
    \cup
    { [kind |-> "transfer_volume", src_slot |-> "4", src_well |-> W_A1, dst_slot |-> "2",
       dst_well |-> dw, volume_ul |-> 50, syringe |-> Some("1ml")] : dw \in {W_B3, W_A9} }
    \cup
    { [kind |-> k, volume_ul |-> 50, syringe |-> Some("1ml"), deck |-> TRUE,
       slot_id |-> Some("4"), labware_type |-> t, well |-> Some(W_A1),
       z_safe |-> None, z_work |-> None] :
        k \in {"aspirate", "dispense"}, t \in RegisteredTypes }
    \cup
    { [kind |-> k, volume_ul |-> v, syringe |-> Some("1ml"), deck |-> FALSE,
       slot_id |-> None, labware_type |-> LABWARE_48WELL_10MM, well |-> None,
       z_safe |-> Some(100000), z_work |-> Some(150000)] :
        k \in {"aspirate", "dispense"}, v \in {20, 50} }

\* The call travels to an address: a slot, or a slot and a well.
AddressedCall(o) ==
    \/ o.kind \in {"pick_up_tip", "drop_tip_scrape", "transfer_volume"}
    \/ o.kind \in {"aspirate", "dispense"} /\ o.deck /\ ~IsNone(o.slot_id) /\ ~IsNone(o.well)

\* The plunger lines of a log that follow G91, and the sum of their deltas.
RelativeStrokes(w) == { i \in 2..Len(w) : IsG1(w[i]) /\ HasPart(w[i], "U") /\ w[i - 1] = <<G91>> }
AbsoluteStrokes(w) == { i \in 1..Len(w) : IsG1(w[i]) /\ HasPart(w[i], "U") } \ RelativeStrokes(w)

RECURSIVE SumOver(_, _)
SumOver(S, w) ==
    IF S = {} THEN 0
    ELSE LET i == CHOOSE j \in S : TRUE IN PartOf(w[i], "U") + SumOver(S \ {i}, w)

RelativeTravel(w) == SumOver(RelativeStrokes(w), w)

\* What is remembered of a call that is over.
Remember(o, st, w) ==
    [ clean |-> hist.clean /\ AddressedCall(o) /\ st = "returned",
      prev |-> IF o.kind = "aspirate" /\ st = "returned"
               THEN Some([volume_ul |-> o.volume_ul, syringe |-> o.syringe,
                          travel |-> RelativeTravel(w),
                          absolute |-> AbsoluteStrokes(w) # {}])
               ELSE None ]

CallInSequence ==
    /\ gstat = "idle"
    /\ \E o \in SeqArgs : Begin(o)
    /\ UNCHANGED <<hist, fwVars, ser, refused, guiVars, ret, current_syringe, sendVars>>

\* The call is over and the next one may start.
FinishInSequence ==
    /\ gstat = "idle"
    /\ End
    /\ hist' = Remember(op, status, wire)
    /\ UNCHANGED <<fwVars, ser, refused, guiVars, ret, current_syringe, sendVars>>

NextSeq ==
    \/ CallInSequence
    \/ ExecRaise
    \/ ExecSendOk
    \/ ExecSendTimeout
    \/ ExecSendError
    \/ Return
    \/ FinishInSequence

SpecSeq == Init /\ [][NextSeq]_vars

---------------------------------------------------------------------------
(* The primitives that wait for an acknowledgement, one read of the wait    *)
(* loop at a time, against a firmware that may answer or stay silent.  A    *)
(* read returns after the serial timeout, with the line that arrived or     *)
(* with nothing.  The thread of the call is never suspended: each of its    *)
(* steps happens.  `clock` is the time as the wait loop last read it: the   *)
(* loop reads the time only under the test of a positive timeout.           *)

WaitTimeouts == {None, Some(0), Some(1500)}

WaitArgs ==
    { [kind |-> "send_gcode", gcode |-> <<G90>>, wait_ok |-> TRUE, overall_timeout |-> t] :
        t \in WaitTimeouts }
    \cup
    { [kind |-> "send_gcode", gcode |-> <<G90>>, wait_ok |-> FALSE, overall_timeout |-> None] }
    \cup
    { [kind |-> "move_to", x |-> Some(10000), y |-> Some(20000), feedrate |-> Some(750), overall_timeout |-> t] :
        t \in {Some(1500), Some(MoveDefaultTimeout)} }
    \cup
    { [kind |-> "move_relative_within", dx |-> 0, dy |-> 0, dz |-> 0, du |-> 500,
       feedrate |-> Some(200), overall_timeout |-> Some(1500)] }
    \cup
    { [kind |-> "home", axes |-> <<"Z">>, timeout |-> 3000] }
    \cup
    { [kind |-> "dwell", ms |-> d] : d \in {-6000, -5000, 0, 200} }

CallPrimitive ==
    /\ sstat = "idle"
    /\ \E o \in WaitArgs : Begin(o)
    /\ UNCHANGED <<hist, fwVars, ser, refused, guiVars, ret, current_syringe, sendVars>>

\* send_gcode: _write_line, then the wait begins when wait_ok.
WriteLine ==
    /\ AtStatement
    /\ sstat = "idle"
    /\ prog[pc].k = "send"
    /\ ser = "open"
    /\ Written(prog[pc].cmd)
    /\ sstat' = IF prog[pc].wait THEN "waiting" ELSE "sent"
    /\ start' = clock
    /\ waitTo' = prog[pc].to
    /\ UNCHANGED <<hist, fwVars, ser, refused, guiVars, ret, current_syringe, op, prog, pc, status,
                   err, timeouts, sawError, rx, clock, reads>>

\* One iteration of the wait loop: _read_line returned `raw` at time `now`.
\* Only the last line read is kept.
WaitStep(raw, now) ==
    LET line == _read_line(raw) IN
    /\ sstat = "waiting"
    /\ reads' = << line >>
    /\ clock' = IF ~IsNone(waitTo) /\ waitTo[1] > 0 THEN now ELSE clock
    /\ sstat' = LET r == DrainIter(line, now, start, waitTo)
                IN IF r = "continue" THEN "waiting" ELSE r
    /\ sawError' = (sawError \/ (line # <<>> /\ IsErrorLine(line)))
    /\ UNCHANGED <<hist, fwVars, ser, refused, guiVars, ret, current_syringe, op, prog, pc, wire,
                   status, err, timeouts, fwMode, lastZ, rx, start, waitTo>>

ReadNothing == WaitStep(<<>>, clock + SerialTimeout)
ReadBusy == WaitStep(L_busy, clock + SerialTimeout)
ReadOk == WaitStep(L_ok_sp, clock + SerialTimeout)
ReadError == WaitStep(L_Error, clock + SerialTimeout)

\* send_gcode is over: the call goes on with its next statement, or ends
\* with the firmware error.
WaitOver ==
    /\ sstat \in {"ok", "timeout", "raise", "sent"}
    /\ AfterWait(sstat)
    /\ sstat' = "idle"
    /\ reads' = <<>>
    /\ clock' = 0
    /\ start' = 0
    /\ waitTo' = None
    /\ UNCHANGED <<hist, fwVars, ser, refused, guiVars, ret, current_syringe, op, prog, wire,
                   sawError, fwMode, lastZ, rx>>

CallStep == WriteLine \/ ReadNothing \/ ReadBusy \/ ReadOk \/ ReadError \/ WaitOver \/ Return

NextWait ==
    \/ CallPrimitive
    \/ WriteLine
    \/ ReadNothing
    \/ ReadBusy
    \/ ReadOk
    \/ ReadError
    \/ WaitOver
    \/ Return
    \/ Finish

SpecWait == Init /\ [][NextWait]_vars /\ WF_vars(CallStep)

---------------------------------------------------------------------------
(* transfer_volume called with volumes that are doubles at and around the   *)
(* capacity of the syringe, one unit in the last place apart.               *)

MaxUlps == 128

\* The double k units in the last place above x.
Ulps(x, k) == [m |-> BigAdd(x.m, Binary(k)), e |-> x.e]

\* 999.9999999999927, which is 0x1.f3fffffffffc0p+9: 64 units in the last
\* place below 1000.0.
BelowMax == [m |-> Trim(FromHex(<<1, 15, 3, 15, 15, 15, 15, 15, 15, 15, 15, 15, 12, 0>>)),
             e |-> -43]

DoubleVolumes ==
    { Ulps(BelowMax, k) : k \in 0..MaxUlps } \cup { Double(n) : n \in {50, 999, 1001} }

DoubleArgs ==
    { [kind |-> "transfer_volume_double", src_slot |-> "4", src_well |-> W_A1,
       dst_slot |-> "2", dst_well |-> W_A1, volume_ul |-> v, syringe |-> Some("1ml")] :
        v \in DoubleVolumes }

CallTransferDouble ==
    /\ gstat = "idle"
    /\ status = "idle"
    /\ \E o \in DoubleArgs :
          /\ op' = o
          /\ prog' = transfer_volume_double(o.src_slot, o.src_well, o.dst_slot, o.dst_well,
                                            o.volume_ul, o.syringe, current_syringe)
    /\ pc' = 1
    /\ wire' = <<>>
    /\ status' = "running"
    /\ err' = ""
    /\ timeouts' = FALSE
    /\ sawError' = FALSE
    /\ UNCHANGED <<fwMode, lastZ>>
    /\ UNCHANGED <<hist, fwVars, ser, refused, guiVars, ret, current_syringe, sendVars>>

NextDouble ==
    \/ CallTransferDouble
    \/ ExecRaise
    \/ ExecSendOk
    \/ Return
    \/ Finish

SpecDouble == Init /\ [][NextDouble]_vars

---------------------------------------------------------------------------
(* Properties                                                              *)

Last(q) == q[Len(q)]
IsPrefix(a, b) == Len(a) <= Len(b) /\ a = SubSeq(b, 1, Len(a))

IsXY(cmd) == IsG1(cmd) /\ (HasPart(cmd, "X") \/ HasPart(cmd, "Y"))
IsZ(cmd) == IsG1(cmd) /\ HasPart(cmd, "Z")
IsU(cmd) == IsG1(cmd) /\ HasPart(cmd, "U")

\* The G1 lines of a log, without their feedrates.
NotFeed(part) == part[1] # "F"
NoFeed(cmd) == SelectSeq(cmd, NotFeed)
Moves(w) == LET m == SelectSeq(w, IsG1) IN [i \in 1..Len(m) |-> NoFeed(m[i])]

MZ(z) == <<G1, <<"Z", z>>>>
MXY(x, y) == <<G1, <<"X", x>>, <<"Y", y>>>>
MU(u) == <<G1, <<"U", u>>>>

ChorKinds == {"pick_up_tip", "drop_tip_scrape", "transfer_volume", "aspirate", "dispense"}

\* The syringe a call resolved, once it has written a line.
Resolved(o) == IF IsNone(o.syringe) THEN SYRINGES[current_syringe[1]] ELSE SYRINGES[o.syringe[1]]

\* The moves of a transfer, by the claim.
TransferMoves(o) ==
    LET base == Resolved(o).u_base
        travel == o.volume_ul * Resolved(o).u_per_ul
        src == well_position_machine(LABWARE_48WELL_10MM, o.src_slot, o.src_well)
        dst == well_position_machine(LABWARE_48WELL_10MM, o.dst_slot, o.dst_well)
    IN << MU(base), MZ(158000), MXY(src[1], src[2]), MZ(170000), MU(base + travel), MZ(158000),
          MZ(158000), MXY(dst[1], dst[2]), MZ(170000), MU(base), MZ(158000) >>

ScenarioTransfer ==
    [kind |-> "transfer_volume", src_slot |-> "4", src_well |-> W_A1, dst_slot |-> "4",
     dst_well |-> W_B3, volume_ul |-> 50, syringe |-> Some("1ml")]

ScenarioTransferMoves ==
    << MU(5000), MZ(158000), MXY(190220, 132960), MZ(170000), MU(8000), MZ(158000),
       MZ(158000), MXY(215160, 145430), MZ(170000), MU(5000), MZ(158000) >>

PickMoves(o) ==
    LET p == well_position_machine(LABWARE_TIPRACK_96, o.slot_id, o.well) IN
    << MZ(100000), MXY(p[1], p[2]), MZ(170000) >>
    \o Repeat(<< MZ(172000), MZ(170000) >>, o.n_cycles)
    \o << MZ(176000), MZ(172000), MZ(100000) >>

ScenarioPick == [kind |-> "pick_up_tip", slot_id |-> "1", well |-> W_A1, n_cycles |-> 2]

ScenarioPickMoves ==
    << MZ(100000), MXY(33200, 33500), MZ(170000), MZ(172000), MZ(170000), MZ(172000),
       MZ(170000), MZ(176000), MZ(172000), MZ(100000) >>

\* C2: pick_up_tip with n cycles, when it returns, has moved Z safe, XY of
\* the well, Z touch, n times (Z press, Z touch), Z full, Z press, Z safe:
\* 2n+6 moves; before that, a prefix of them.
C2_PickUpTipSequence ==
    (op.kind = "pick_up_tip" /\ wire # <<>>) =>
        /\ IsPrefix(Moves(wire), PickMoves(op))
        /\ (status = "returned" =>
              /\ Moves(wire) = PickMoves(op)
              /\ Len(Moves(wire)) = 2 * op.n_cycles + 6
              /\ (op = ScenarioPick => Moves(wire) = ScenarioPickMoves))

C2_Witness == status = "returned" /\ op = ScenarioPick /\ Len(Moves(wire)) = 10

\* The safe height of a high-level action: its labware's safe_z, or the
\* caller's z_safe in current-position mode.
Addressed(o) == o.deck /\ ~IsNone(o.slot_id) /\ ~IsNone(o.well)

SafeZ(o) ==
    CASE o.kind = "pick_up_tip" -> 100000
      [] o.kind = "drop_tip_scrape" -> 100000
      [] o.kind = "transfer_volume" -> 158000
      [] o.kind \in {"aspirate", "dispense"} ->
            IF Addressed(o) THEN o.labware_type.safe_z ELSE o.z_safe[1]

\* The last Z written by this call before its i-th line, None when it has
\* written none.
ZBefore(i) == {j \in 1..(i - 1) : IsZ(wire[j])}
LastZIn(i) ==
    IF ZBefore(i) = {} THEN None
    ELSE Some(PartOf(wire[CHOOSE j \in ZBefore(i) : \A k \in ZBefore(i) : k <= j], "Z"))

\* Machine Z grows downward: a descent below the safe height is a Z move to
\* a larger value.
Descent(i) == IsZ(wire[i]) /\ PartOf(wire[i], "Z") > SafeZ(op)

\* A descent comes after an XY move, with no return to the safe height
\* between the two.
DescentAfterXY(i) ==
    \E j \in 1..(i - 1) :
        /\ IsXY(wire[j])
        /\ \A k \in (j + 1)..(i - 1) : IsZ(wire[k]) => PartOf(wire[k], "Z") > SafeZ(op)

HasSafeZ(o) == o.kind \in {"aspirate", "dispense"} => (Addressed(o) \/ ~IsNone(o.z_safe))

\* C3 as stated: in every high-level action each XY move is written with
\* the last commanded Z at the safe height and each descent only after the
\* XY move.  An XY move written before the call commanded any Z, and the
\* descent of a call that travels to no address, are not counted against
\* the statement.
TravelsXY(o) == o.kind \in {"aspirate", "dispense"} => Addressed(o)

C3_Original ==
    (op.kind \in ChorKinds /\ HasSafeZ(op)) =>
        \A i \in 1..Len(wire) :
            /\ IsXY(wire[i]) => LastZIn(i) \in {None, Some(SafeZ(op))}
            /\ (Descent(i) /\ TravelsXY(op)) => DescentAfterXY(i)

IsScrapeStroke(i) == op.kind = "drop_tip_scrape" /\ \E j \in 1..(i - 1) : IsXY(wire[j])
IsPlateCall(o) ==
    o.kind \in {"aspirate", "dispense"} /\ Addressed(o) /\ o.labware_type # LABWARE_BEAKER_1WELL

\* C3 (amended): an XY move is written with the last commanded Z at the
\* safe height of the action in pick_up_tip, transfer_volume, beaker-
\* addressed aspirate/dispense and the approach of drop_tip_scrape; the
\* scrape stroke of drop_tip_scrape is written at the scrape height, and a
\* plate-addressed aspirate/dispense writes its XY move first, before any
\* Z of its own.  In every action that travels to an address, a descent
\* below the safe height is written only after the XY move to the target;
\* current-position aspirate/dispense write no XY move.
C3_SafetyOrdering ==
    (op.kind \in ChorKinds /\ HasSafeZ(op)) =>
        \A i \in 1..Len(wire) :
            /\ IsXY(wire[i]) =>
                 /\ TravelsXY(op)
                 /\ LastZIn(i) = IF IsScrapeStroke(i) THEN Some(170000)
                                 ELSE IF IsPlateCall(op) THEN None
                                 ELSE Some(SafeZ(op))
            /\ (Descent(i) /\ TravelsXY(op)) => DescentAfterXY(i)

C3_Witness ==
    /\ status = "returned"
    /\ op.kind = "drop_tip_scrape"
    /\ \E i \in 1..Len(wire) : IsXY(wire[i]) /\ IsScrapeStroke(i)
    /\ \E i \in 1..Len(wire) : Descent(i)

ModeLines(w) == SelectSeq(w, LAMBDA c : c \in {<<G90>>, <<G91>>})

\* C4: when move_relative returns, whatever the mode before the call and
\* whether its commands were acknowledged or timed out, it has written
\* G91, one G1 and G90 in that order, the last mode command being G90; the
\* same holds of each relative move inside aspirate and dispense.
C4_MoveRelativeAbsolute ==
    /\ (op.kind = "move_relative" /\ status = "returned") =>
          /\ Len(wire) = 3
          /\ wire[1] = <<G91>> /\ IsG1(wire[2]) /\ wire[3] = <<G90>>
    /\ (op.kind \in {"move_relative", "aspirate", "dispense"} /\ status = "returned") =>
          /\ fwMode = "abs"
          /\ Last(ModeLines(wire)) = <<G90>>
          /\ \A i \in 1..Len(wire) :
                wire[i] = <<G91>> =>
                    i + 2 <= Len(wire) /\ IsG1(wire[i + 1]) /\ wire[i + 2] = <<G90>>

C4_Witness ==
    /\ op.kind = "move_relative"
    /\ status = "returned"
    /\ op.mode0 = "rel"
    /\ timeouts

AddressErrors == {"ValueError: Row out of range", "ValueError: Column out of range"}

\* C5 as stated: an action that fails with an address-range error has
\* written no motion command.
C5_NoMotionOnBadWell ==
    (status = "raised" /\ err \in AddressErrors) => Moves(wire) = <<>>

\* The call asks for more travel than the syringe's upper bound allows.
ResolvesSyringe(o) ==
    IF IsNone(o.syringe) THEN ~IsNone(current_syringe) ELSE o.syringe[1] \in DOMAIN SYRINGES
ExceedsUpper(o) ==
    /\ ResolvesSyringe(o)
    /\ ~IsNone(Resolved(o).u_max)
    /\ Resolved(o).u_base + o.volume_ul * Resolved(o).u_per_ul > Resolved(o).u_max[1]

\* C6 as stated: aspirate, dispense and transfer_volume of a volume whose
\* travel exceeds the upper bound fail before any command is sent.
C6_RangeCheckedFirst ==
    (op.kind \in {"aspirate", "dispense", "transfer_volume"} /\ ExceedsUpper(op)) =>
        /\ wire = <<>>
        /\ status # "returned"

\* The lines of the firmware, as _read_line returns them.
ErrRead(line) == line \in {L_Error, L_ERROR}
OkRead(line) == line \in {L_ok, L_OK}
Skipped(line) == ~ErrRead(line) /\ ~OkRead(line)

\* C7: a wait fails with the firmware error as soon as a line containing
\* "error" in any case is read, and reads nothing after it; every line read
\* before the one that ends the wait is neither "ok" nor an error.
C7_ErrorLineRaises ==
    /\ \A i \in 1..Len(reads) : ErrRead(reads[i]) => (sstat = "raise" /\ i = Len(reads))
    /\ sstat = "raise" => (reads # <<>> /\ ErrRead(Last(reads)))
    /\ \A i \in 1..(Len(reads) - 1) : Skipped(reads[i])
    /\ sstat = "waiting" => \A i \in 1..Len(reads) : Skipped(reads[i])

C7_Witness == sstat = "raise" /\ reads = <<L_busy, L_ERROR>>

PositiveTimeout == ~IsNone(waitTo) /\ waitTo[1] > 0

\* C8: a wait with a positive timeout that has read neither "ok" nor an
\* error line when the timeout has elapsed returns normally, and only
\* such a wait ends by timeout.
C8_TimeoutReturns ==
    /\ ( /\ sstat \in {"waiting", "ok", "timeout", "raise"}
         /\ PositiveTimeout
         /\ reads # <<>>
         /\ \A i \in 1..Len(reads) : Skipped(reads[i])
         /\ clock - start > waitTo[1] ) => sstat = "timeout"
    /\ sstat = "timeout" =>
         /\ PositiveTimeout
         /\ clock - start > waitTo[1]
         /\ \A i \in 1..Len(reads) : Skipped(reads[i])

C8_Witness == sstat = "timeout" /\ Len(reads) = 3 /\ reads[1] = L_busy /\ waitTo = Some(1500)

\* The command lines of a statement list.
IsSend(st) == st.k = "send"
Cmds(p) == LET q == SelectSeq(p, IsSend) IN [i \in 1..Len(q) |-> q[i].cmd]
NoRaise(p) == \A i \in 1..Len(p) : p[i].k = "send"

\* C9: once the firmware has reported an error for a command of a high-level
\* action, the action has failed with it and has written exactly the
\* commands of its sequence up to that command.
C9_ErrorAborts ==
    (op.kind \in ChorKinds /\ sawError) =>
        /\ status = "raised"
        /\ err = "RuntimeError: Firmware error"
        /\ Len(wire) = pc
        /\ \A i \in 1..pc : prog[i].k = "send" /\ wire[i] = prog[i].cmd

C9_Witness ==
    /\ op.kind = "transfer_volume"
    /\ sawError
    /\ status = "raised"
    /\ Len(wire) = 6
    /\ Len(prog) = 12

\* C10: a high-level action whose arguments pass its checks and that reads
\* no error line returns normally with its whole command sequence written,
\* however many of its commands timed out.
C10_TimeoutContinues ==
    (op.kind \in ChorKinds /\ status \in {"returned", "raised"} /\ ~sawError /\ NoRaise(prog)) =>
        /\ status = "returned"
        /\ wire = Cmds(prog)

C10_Witness ==
    /\ op.kind = "pick_up_tip"
    /\ status = "returned"
    /\ op.n_cycles = 2
    /\ timeouts
    /\ Len(wire) = 17

NotConnected == "RuntimeError: Serial not connected"
TouchesConnection(p) == \E i \in 1..Len(p) : p[i].k = "send"

\* C11: while the port is closed (never opened, or closed by disconnect) a
\* call has written nothing; it cannot return if it has a command to send,
\* and when it fails it fails with the not-connected error unless it failed
\* in its own checks before its first command.  The not-connected error
\* occurs only on a closed port, and on an open port a call, also one that
\* was refused before, is never refused.
C11_ClosedPortRefuses ==
    /\ (ser = "none" /\ op # Idle) => wire = <<>>
    /\ (ser = "none" /\ status = "returned") => ~TouchesConnection(prog)
    /\ (ser = "none" /\ status = "raised") =>
          \/ err = NotConnected /\ prog[pc].k = "send"
          \/ err # NotConnected /\ prog[pc].k = "raise"
    /\ (status = "raised" /\ err = NotConnected) =>
          ser = "none" /\ wire = <<>> /\ refused = Some(op)
    /\ (ser = "open" /\ status # "idle") => err # NotConnected

\* A call that was refused on the closed port has, after connect, run to
\* its end and written its commands.
C11_Witness ==
    /\ refused = Some(op)
    /\ ser = "open"
    /\ status = "returned"
    /\ wire # <<>>

\* What _run_single_step does with step k of the list being run.
StepDoes(k) == _run_single_step(protocol_steps[k], "1ml")
StepPlan(k) == Plan(StepDoes(k).call, Some("1ml"))
Commands(p) == [j \in 1..Len(p) |-> p[j].cmd]

\* Step k ran to its end: its call of the robot wrote its whole sequence.
StepCompleted(k) ==
    /\ ~StepDoes(k).raises
    /\ NoRaise(StepPlan(k))
    /\ ran[k].wrote = Commands(StepPlan(k))

\* The causes step k can fail with, and what it has written by then.
StepFailedWith(k, e) ==
    IF StepDoes(k).raises THEN e = StepDoes(k).err /\ ran[k].wrote = <<>>
    ELSE /\ IsPrefix(ran[k].wrote, Commands(StepPlan(k)))
         /\ \/ e = "RuntimeError: Firmware error" /\ ran[k].wrote # <<>>
            \/ /\ Len(ran[k].wrote) < Len(StepPlan(k))
               /\ StepPlan(k)[Len(ran[k].wrote) + 1].k = "raise"
               /\ e = StepPlan(k)[Len(ran[k].wrote) + 1].err

StepKinds == {"home_xyz", "pick_tip", "drop_tip", "transfer", "aspirate", "dispense", "dwell"}
KnownKind(step) == ~IsNone(step.type) /\ step.type[1] \in StepKinds

\* The step the run has entered last.
ThisStep == protocol_steps[Len(ran)]

\* C13: a step whose type is outside the seven known ones, or that has no
\* type, fails the run with the unknown-step-type error; no call of the
\* robot is begun for it and it writes nothing.  A step of a known type
\* never fails with that error.
C13_UnknownStepKind ==
    (gstat # "idle" /\ ran # <<>>) =>
        /\ ~KnownKind(ThisStep) =>
              /\ gstat = "failed"
              /\ report = Some("ValueError: Unknown step type")
              /\ status = "idle"
              /\ wire = <<>>
              /\ Last(ran).wrote = <<>>
        /\ (gstat = "failed" /\ report = Some("ValueError: Unknown step type")) =>
              ~KnownKind(ThisStep)

\* A step without a type fails the run after a step that moved the robot.
C13_Witness ==
    /\ gstat = "failed"
    /\ Len(ran) = 2
    /\ ran[1].wrote # <<>>
    /\ IsNone(ThisStep.type)
    /\ report = Some("ValueError: Unknown step type")

\* The params a step type requires.
Required(type) ==
    CASE type = "pick_tip" -> {"slot", "well"}
      [] type = "drop_tip" -> {"slot"}
      [] type = "transfer" -> {"src_slot", "src_well", "dst_slot", "dst_well", "volume_ul"}
      [] type \in {"aspirate", "dispense"} -> {"volume_ul", "slot"}
      [] OTHER -> {}

Lacking(step) ==
    IF KnownKind(step) THEN {k \in Required(step.type[1]) : IsNone(step.params[k])} ELSE {}

\* The errors that name a param: KeyError carries the key, and the
\* ValueError of the aspirate and dispense steps says that slot is needed.
NamesParam(e, k) ==
    \/ k = "slot" /\ e \in {"KeyError: 'slot'", "ValueError: step needs slot"}
    \/ k = "well" /\ e = "KeyError: 'well'"
    \/ k = "src_slot" /\ e = "KeyError: 'src_slot'"
    \/ k = "src_well" /\ e = "KeyError: 'src_well'"
    \/ k = "dst_slot" /\ e = "KeyError: 'dst_slot'"
    \/ k = "dst_well" /\ e = "KeyError: 'dst_well'"
    \/ k = "volume_ul" /\ e = "KeyError: 'volume_ul'"

C15_ReservoirMode ==
    (gstat = "running" /\ op.kind \in {"aspirate", "dispense"}) =>
        LET p == protocol_steps[idx].params
            c == slot_center_machine(p.slot[1])
        IN IF IsNone(p.well)
           THEN /\ op.labware_type = LABWARE_BEAKER_1WELL
                /\ op.well = Some(W_A1)
                /\ op.slot_id = p.slot
                /\ \A i \in 1..Len(wire) :
                      /\ IsXY(wire[i]) => NoFeed(wire[i]) = MXY(c[1], c[2])
                      /\ IsZ(wire[i]) => PartOf(wire[i], "Z") \in {100000, 150000}
                /\ status = "returned" =>
                      /\ Len(Moves(wire)) = 5
                      /\ SubSeq(Moves(wire), 1, 3) = << MZ(100000), MXY(c[1], c[2]), MZ(150000) >>
                      /\ Moves(wire)[5] = MZ(100000)
           ELSE /\ op.labware_type = LABWARE_48WELL_10MM
                /\ op.well = p.well
                /\ \A i \in 1..Len(wire) :
                      /\ IsXY(wire[i]) =>
                            LET w == well_position_machine(LABWARE_48WELL_10MM, p.slot[1],
                                                           p.well[1])
                            IN NoFeed(wire[i]) = MXY(w[1], w[2])
                      /\ IsZ(wire[i]) => PartOf(wire[i], "Z") \in {158000, 170000}

\* An aspirate step with a slot and no well has run to its end.
C15_Witness ==
    /\ gstat = "running"
    /\ status = "returned"
    /\ op.kind = "aspirate"
    /\ IsNone(protocol_steps[idx].params.well)
    /\ \E i \in 1..Len(wire) : IsXY(wire[i])

\* The moves of drop_tip_scrape, by the claim.
ScrapeMoves(o) ==
    LET c == slot_center_machine(o.slot_id)
        reach == SlotHalfWidth + ExtraScrape
        x_target == IF o.edge = "right" THEN c[1] + reach ELSE c[1] - reach
    IN << MZ(LABWARE_TIPWASTE_BOX.safe_z), MXY(c[1], c[2]),
          MZ(LABWARE_TIPWASTE_BOX.scrape_z[1]), MXY(x_target, c[2]),
          MZ(LABWARE_TIPWASTE_BOX.safe_z) >>

ScenarioScrape == [kind |-> "drop_tip_scrape", slot_id |-> "2", edge |-> "right"]

\* C16: drop_tip_scrape, when it returns, has moved Z safe, XY slot center,
\* Z scrape height, one lateral move and Z safe; the lateral move goes to
\* X = center_x + 64 + 20 for edge right and center_x - 64 - 20 for edge
\* left, at the Y of the slot center.  For slot 2 and edge right the
\* lateral move goes to X 318.1, Y 65.
C16_DropTipScrape ==
    (op.kind = "drop_tip_scrape" /\ wire # <<>>) =>
        /\ IsPrefix(Moves(wire), ScrapeMoves(op))
        /\ status = "returned" =>
              /\ op.edge \in {"left", "right"}
              /\ Moves(wire) = ScrapeMoves(op)
              /\ op = ScenarioScrape => Moves(wire)[4] = MXY(318100, 65000)

C16_Witness ==
    /\ status = "returned"
    /\ op = ScenarioScrape
    /\ Len(Moves(wire)) = 5

AddressedMode(o) == o.deck /\ ~IsNone(o.slot_id) /\ ~IsNone(o.well)
CurrentPositionMode(o) ==
    ~IsNone(o.z_safe) /\ ~IsNone(o.z_work) /\ IsNone(o.slot_id) /\ IsNone(o.well)
MissingAddressErrors ==
    { "ValueError: current-XY needs z_safe and z_aspirate",
      "ValueError: current-XY needs z_safe and z_dispense" }

\* C17 as stated: an aspirate or dispense call returns only when it gives
\* a complete address (deck, slot and well) or, with no slot and no well,
\* the two heights; it fails with the missing-address error only when it
\* gives neither.
C17_ExactlyOneMode ==
    op.kind \in {"aspirate", "dispense"} =>
        /\ status = "returned" => (AddressedMode(op) \/ CurrentPositionMode(op))
        /\ (status = "raised" /\ err \in MissingAddressErrors) =>
              ~(AddressedMode(op) \/ CurrentPositionMode(op))

SyringeErrors == {"KeyError: Unknown syringe type", "RuntimeError: No syringe selected"}

\* The plunger values a call may command with calibration c.
PlungerValues(o, c) ==
    CASE o.kind = "transfer_volume" -> {c.u_base, c.u_base + o.volume_ul * c.u_per_ul}
      [] o.kind = "aspirate" -> {o.volume_ul * c.u_per_ul}
      [] o.kind = "dispense" -> {0 - o.volume_ul * c.u_per_ul}

\* The call resolved calibration c: it does not fail in the resolution,
\* every plunger move of its sequence is computed from c, and a sequence
\* that has no failing statement has a plunger move.
ResolvedTo(c) ==
    /\ prog # <<>>
    /\ prog[1].err \notin SyringeErrors
    /\ \A i \in 1..Len(prog) :
          (prog[i].k = "send" /\ IsU(prog[i].cmd)) =>
              PartOf(prog[i].cmd, "U") \in PlungerValues(op, c)
    /\ NoRaise(prog) => \E i \in 1..Len(prog) : IsU(prog[i].cmd)

\* The call failed in the resolution with error e, before any command.
ResolutionFails(e) ==
    /\ prog = << Raise(e) >>
    /\ wire = <<>>
    /\ status # "returned"
    /\ status = "raised" => err = e

\* C18: in a call that resolves a syringe, after any set_syringe calls: a
\* registered name resolves to its calibration whatever the selection; an
\* unregistered name fails; no name resolves to the selected calibration,
\* and fails with no-syringe-selected when none is selected.  set_syringe
\* with an unregistered name fails and leaves the selection as it was.
C18_SyringeResolution ==
    /\ op.kind \in {"transfer_volume", "aspirate", "dispense"} =>
          IF ~IsNone(op.syringe)
          THEN IF op.syringe[1] \in DOMAIN SYRINGES
               THEN ResolvedTo(SYRINGES[op.syringe[1]])
               ELSE ResolutionFails("KeyError: Unknown syringe type")
          ELSE IF IsNone(current_syringe)
               THEN ResolutionFails("RuntimeError: No syringe selected")
               ELSE ResolvedTo(SYRINGES[current_syringe[1]])
    /\ ~IsNone(current_syringe) => current_syringe[1] \in DOMAIN SYRINGES
    /\ op.kind = "set_syringe" =>
          IF op.name \in DOMAIN SYRINGES
          THEN status = "returned" /\ current_syringe = Some(op.name)
          ELSE status = "raised" /\ err = "KeyError: Unknown syringe type"

\* A transfer that names no syringe has run to its end with the selected one.
C18_Witness ==
    /\ op.kind = "transfer_volume"
    /\ IsNone(op.syringe)
    /\ current_syringe = Some("1ml")
    /\ status = "returned"
    /\ \E i \in 1..Len(wire) : IsU(wire[i])

\* The slots a call of a high-level action looks up.
GivenSlots(o) ==
    CASE o.kind \in {"pick_up_tip", "drop_tip_scrape"} -> {o.slot_id}
      [] o.kind = "transfer_volume" -> {o.src_slot, o.dst_slot}
      [] o.kind \in {"aspirate", "dispense"} -> IF AddressedMode(o) THEN {o.slot_id[1]} ELSE {}
      [] OTHER -> {}

TravelErrors ==
    {"ValueError: u_base below syringe u_min", "ValueError: U travel exceeds syringe u_max"}

\* C19: the lookup of a slot fails exactly for the identifiers that are
\* not in the layout; a high-level action given such a slot never returns
\* and writes no move, dwell or homing command (aspirate and dispense have
\* written the mode command G90 by then, the others nothing); it fails with
\* the KeyError of the lookup unless the syringe resolution, the travel
\* check or the firmware's answer to G90 failed it first.
C19_UnknownSlot ==
    /\ \A s \in SlotIds : slot_lookup(s).ok <=> s \in DOMAIN DECK_LAYOUT.slots
    /\ (op.kind \in ChorKinds /\ \E s \in GivenSlots(op) : ~slot_lookup(s).ok) =>
          /\ status # "returned"
          /\ \A i \in 1..Len(wire) : wire[i] = <<G90>>
          /\ op.kind \in {"pick_up_tip", "drop_tip_scrape", "transfer_volume"} => wire = <<>>
          /\ status = "raised" =>
                \/ err = "KeyError: slot"
                \/ err \in SyringeErrors \cup TravelErrors
                \/ err = "RuntimeError: Firmware error" /\ wire = << <<G90>> >>

\* An addressed aspirate at the unregistered slot 9 failed in the lookup.
C19_Witness ==
    /\ op.kind = "aspirate"
    /\ AddressedMode(op)
    /\ op.slot_id = Some("9")
    /\ status = "raised"
    /\ err = "KeyError: slot"

\* The deck-space centers of the layout table, and the fixed origin.
GoldenCenter ==
    [ s \in {"1", "2", "3", "4", "5", "6"} |->
        CASE s = "1" -> <<90900, 70000>>
          [] s = "2" -> <<242100, 70000>>
          [] s = "3" -> <<90900, 170000>>
          [] s = "4" -> <<242100, 170000>>
          [] s = "5" -> <<90900, 270000>>
          [] s = "6" -> <<242100, 270000>> ]
GoldenOrigin == <<-8000, -5000>>

\* origin + slot center + type offset + (column * pitch_x, row * pitch_y).
ExpectedWell(t, s, row, col) ==
    << GoldenOrigin[1] + GoldenCenter[s][1] + t.offset_x + col * t.pitch_x,
       GoldenOrigin[2] + GoldenCenter[s][2] + t.offset_y + row * t.pitch_y >>

InBounds(t, row, number) == row < t.rows /\ 1 <= number /\ number <= t.cols

Sign(n) == IF n > 0 THEN 1 ELSE IF n < 0 THEN -1 ELSE 0

\* C20: slot_center_machine of a registered slot is its deck-space center
\* translated by (-8, -5).  well_position_machine returns exactly for the
\* wells inside the labware's rows and columns, and then equals origin +
\* slot center + type offset + (column * pitch_x, row * pitch_y); the next
\* column differs in X, and the next row in Y, by the sign of the pitch;
\* the result is the same for the lower-case and the upper-case name.
C20_CoordinatePipeline ==
    /\ (op.kind = "slot_center_machine" /\ status = "returned") =>
          ret = << GoldenCenter[op.slot_id][1] + GoldenOrigin[1],
                   GoldenCenter[op.slot_id][2] + GoldenOrigin[2] >>
    /\ op.kind = "well_position_machine" =>
          LET t == op.labware_type
              s == op.slot_id
           IN /\ status = "returned" <=> InBounds(t, op.row, op.number)
              /\ status = "returned" =>
                    /\ ret = ExpectedWell(t, s, op.row, op.number - 1)
                    /\ ret = well_position_machine(t, s, Lower(op.well))
                    /\ ret = well_position_machine(t, s, Upper(op.well))
                    /\ InBounds(t, op.row, op.number + 1) =>
                          LET next == well_position_machine(
                                          t, s, WellName(op.row, op.number + 1, FALSE, FALSE))
                          IN Sign(next[1] - ret[1]) = Sign(t.pitch_x) /\ next[2] = ret[2]
                    /\ InBounds(t, op.row + 1, op.number) =>
                          LET next == well_position_machine(
                                          t, s, WellName(op.row + 1, op.number, FALSE, FALSE))
                          IN Sign(next[2] - ret[2]) = Sign(t.pitch_y) /\ next[1] = ret[1]

\* Well h12 of the tip rack on slot 1, written in lower case with padding.
C20_Witness ==
    /\ op.kind = "well_position_machine"
    /\ status = "returned"
    /\ op.labware_type = LABWARE_TIPRACK_96
    /\ op.well = << " ", "h", "1", "2", " " >>
    /\ ret = ExpectedWell(LABWARE_TIPRACK_96, op.slot_id, 7, 11)

\* The axes a G28 line homes: every axis when the line names none (home_all
\* homes all axes with a plain G28), the axes it names otherwise.
Homed(cmd) ==
    IF Len(cmd) = 1 THEN {"X", "Y", "Z", "U"} ELSE { cmd[i][1] : i \in 2..Len(cmd) }

Requested(axes) == { UpperOf(axes[i]) : i \in 1..Len(axes) } \cap {"X", "Y", "Z", "U"}

\* C21: home(axes) writes one G28 line, and the axes that line homes are
\* axes among X, Y, Z, U whose letter, in either case, occurs in `axes`; a
\* letter that is no axis raises nothing.
C21_HomeRestricted ==
    (op.kind = "home" /\ wire # <<>>) =>
        /\ Len(wire) = 1
        /\ wire[1][1] = G28
        /\ Homed(wire[1]) \subseteq Requested(op.axes)
        /\ err \in {"", "RuntimeError: Firmware error"}

C27_ModeRoundTrip ==
    (op.kind = "move_relative" /\ status \in {"returned", "raised"} /\ Len(wire) >= 2) =>
        fwMode = "abs"

\* C24: transfer_volume called without a syringe name, with a syringe
\* selected by set_syringe, resolves the selected calibration and does not
\* fail for its syringe.
C24_TransferDefaultSyringe ==
    (op.kind = "transfer_volume" /\ "defaulted" \in DOMAIN op /\ ~IsNone(current_syringe)) =>
        /\ ResolvedTo(SYRINGES[current_syringe[1]])
        /\ (status = "raised" => err \notin SyringeErrors)

\* C28: drop_tip_scrape that fails with the invalid-edge error has written
\* no motion command.
C28_InvalidEdgeFirst ==
    (op.kind = "drop_tip_scrape" /\ status = "raised"
        /\ err = "ValueError: edge must be 'left' or 'right'") => Moves(wire) = <<>>

\* The working height of an addressed call: the labware's aspirate_z /
\* dispense_z when it has one, its bottom_z otherwise.
WorkZ(o) ==
    LET z == IF o.kind = "aspirate" THEN o.labware_type.aspirate_z
             ELSE o.labware_type.dispense_z
    IN IF IsNone(z) THEN o.labware_type.bottom_z ELSE z[1]

FirstMoves(w, n) == SubSeq(Moves(w), 1, IF Len(Moves(w)) < n THEN Len(Moves(w)) ELSE n)

\* C29: in addressed-mode aspirate and dispense on a well of the labware,
\* the moves begin, for the beaker, with Z to its safe height, then XY to
\* the well, then Z to the working height; for any other labware type with
\* XY to the well, then a Z move, and no Z move before the XY move.
C29_ReservoirApproach ==
    (op.kind \in {"aspirate", "dispense"} /\ AddressedMode(op)
        /\ slot_lookup(op.slot_id[1]).ok /\ _well_rc(op.labware_type, op.well[1]).ok) =>
        LET t == op.labware_type
            p == well_position_machine(t, op.slot_id[1], op.well[1])
        IN /\ IF t = LABWARE_BEAKER_1WELL
              THEN IsPrefix(FirstMoves(wire, 3), << MZ(t.safe_z), MXY(p[1], p[2]), MZ(WorkZ(op)) >>)
              ELSE LET m == FirstMoves(wire, 2)
                   IN /\ Len(m) >= 1 => m[1] = MXY(p[1], p[2])
                      /\ Len(m) = 2 => IsZ(m[2])
           /\ status = "returned" => Len(Moves(wire)) = (IF t = LABWARE_BEAKER_1WELL THEN 5 ELSE 4)

\* An aspirate from the beaker on slot 4 has returned: Z 100, XY of the
\* slot center, Z 150, the stroke, Z 100.
C29_Witness ==
    /\ op.kind = "aspirate"
    /\ AddressedMode(op)
    /\ op.labware_type = LABWARE_BEAKER_1WELL
    /\ op.slot_id = Some("4")
    /\ status = "returned"
    /\ FirstMoves(wire, 3) = << MZ(100000), MXY(234100, 165000), MZ(150000) >>

\* The travel of an aspirate or dispense call, signed: + for aspirate.
SignedTravel(o) ==
    IF o.kind = "aspirate" THEN o.volume_ul * Resolved(o).u_per_ul
    ELSE 0 - o.volume_ul * Resolved(o).u_per_ul

ULines(w) == { i \in 1..Len(w) : IsU(w[i]) }

\* C30: in aspirate and dispense, in both modes, every plunger line comes
\* right after G91, carries +travel (aspirate) or -travel (dispense), and
\* the line written after it is G90; a call that returns has written
\* exactly one plunger line, followed by G90.
C30_PlungerRelative ==
    op.kind \in {"aspirate", "dispense"} =>
        /\ \A i \in ULines(wire) :
              /\ i > 1 /\ wire[i - 1] = <<G91>>
              /\ PartOf(wire[i], "U") = SignedTravel(op)
              /\ ~HasPart(wire[i], "X") /\ ~HasPart(wire[i], "Y") /\ ~HasPart(wire[i], "Z")
              /\ i < Len(wire) => wire[i + 1] = <<G90>>
              /\ status = "returned" => i < Len(wire)
        /\ status = "returned" => Cardinality(ULines(wire)) = 1

\* A dispense at the current position has returned after G91, G1 U-3, G90.
C30_Witness ==
    /\ op.kind = "dispense"
    /\ ~AddressedMode(op)
    /\ status = "returned"
    /\ \E i \in ULines(wire) :
          wire[i - 1] = <<G91>> /\ PartOf(wire[i], "U") = -3000 /\ wire[i + 1] = <<G90>>

\* The step forms the editor shows as "aspirate XY" and "dispense XY".
IsXYExample(step) ==
    /\ step.type \in {Some("aspirate"), Some("dispense")}
    /\ IsNone(step.params.slot) /\ IsNone(step.params.well)
    /\ ~IsNone(step.params.volume_ul) /\ ~IsNone(step.params.z_safe)
    /\ IF step.type = Some("aspirate") THEN ~IsNone(step.params.z_aspirate)
       ELSE ~IsNone(step.params.z_dispense)

XYExampleMoves(step) ==
    LET p == step.params
        travel == p.volume_ul[1] * Syringe_1ml.u_per_ul
    IN IF step.type = Some("aspirate")
       THEN << MZ(p.z_safe[1]), MZ(p.z_aspirate[1]), MU(travel), MZ(p.z_safe[1]) >>
       ELSE << MZ(p.z_safe[1]), MZ(p.z_dispense[1]), MU(0 - travel), MZ(p.z_safe[1]) >>

\* C25: an "aspirate XY" or "dispense XY" step is not refused for its
\* missing slot; it runs the current-position sequence at its heights: Z
\* safe, Z working height, the plunger stroke, Z safe.
C25_ExamplesExecutable ==
    (gstat # "idle" /\ ran # <<>> /\ IsXYExample(ThisStep)) =>
        /\ report # Some("ValueError: step needs slot")
        /\ (gstat = "running" /\ status = "returned") => Moves(wire) = XYExampleMoves(ThisStep)

\* The mapping the lines of a position report stand for, in thousandths.
ExpectedPos(line) ==
    CASE line = L_pos -> ("X" :> 1500 @@ "Y" :> 2000 @@ "Z" :> 3000 @@ "U" :> 4000)
      [] line = Strip(L_pos_comma) -> ("X" :> 1000 @@ "Y" :> -2000)
      [] line = L_pos_yz -> ("Y" :> 2000 @@ "Z" :> 3000)
      [] line = L_pos_bad -> ("Z" :> 9000)
      [] OTHER -> EmptyPos

\* The lines read that carry the tag X:, and those that carry a token
\* tagged with any of the axes.
HasXTag(line) == \E i \in 1..(Len(line) - 1) : line[i] = "X" /\ line[i + 1] = ":"
HasAxisTag(line) ==
    \E i \in 1..(Len(line) - 1) : line[i] \in {"X", "Y", "Z", "U"} /\ line[i + 1] = ":"
XTagged == { i \in 1..Len(reads) : HasXTag(reads[i]) }
AxisTagged == { i \in 1..Len(reads) : HasAxisTag(reads[i]) }

Min(S) == CHOOSE i \in S : \A j \in S : i <= j

\* get_position with `matching` the reads that count as the position
\* report: one M114 written, at most 20 reads, nothing read after the
\* first matching line, whose values are returned; the empty mapping after
\* 20 reads without a match.
QueryReturnsFirst(matching) ==
    op.kind = "get_position" =>
        /\ Len(wire) = op.written + 1
        /\ Last(wire) = <<M114>>
        /\ Len(reads) <= QueryReads
        /\ sstat = "querying" => matching = {} /\ Len(reads) < QueryReads /\ ret = <<>>
        /\ sstat = "position" =>
              IF matching = {}
              THEN ret = Some(EmptyPos) /\ Len(reads) = QueryReads
              ELSE ret = Some(ExpectedPos(reads[Min(matching)])) /\ Min(matching) = Len(reads)

\* C23 as stated: the line returned is the first line read that carries a
\* token tagged X:, Y:, Z: or U:.
C23_Original == QueryReturnsFirst(AxisTagged)

\* C23 as amended: get_position writes one M114, reads at most 20 lines and
\* returns the axis values of the first line read that contains "X:",
\* reading no line after it; a line that carries only Y:, Z: or U: tokens is
\* passed over; after 20 reads without such a line it returns the empty
\* mapping.
C23_QueryFirstXLine == QueryReturnsFirst(XTagged)

\* A report line without X: was passed over and the full line returned.
C23_Witness ==
    /\ op.kind = "get_position"
    /\ sstat = "position"
    /\ Len(reads) >= 2
    /\ reads[1] = L_pos_yz
    /\ Last(reads) = L_pos
    /\ ret = Some("X" :> 1500 @@ "Y" :> 2000 @@ "Z" :> 3000 @@ "U" :> 4000)

\* C26: the success line that ends the wait of a command is the firmware's
\* answer to that command: a success line left in the input stream by an
\* earlier command (it arrived after that command's timeout, or it follows
\* a position report) never ends the wait of a later command.
C26_AckIsOwn ==
    sstat = "ok" => readFor[Len(readFor)] = Len(wire)

\* C32: a call writes each command of its sequence once, in program order:
\* what it has written is the commands of the statements it has passed,
\* plus the command an error was reported for; a timeout or an error never
\* puts a command on the line a second time.
C32_WrittenOnce ==
    (status # "idle" /\ op.kind \in ChorKinds \cup {"move_relative"}) =>
        /\ IsPrefix(wire, Cmds(prog))
        /\ Len(wire) = (IF status = "raised" /\ sawError THEN pc ELSE pc - 1)
        /\ (status = "returned" => wire = Cmds(prog))

\* A transfer returned with all twelve lines written once although waits
\* timed out.
C32_Witness ==
    /\ op.kind = "transfer_volume"
    /\ status = "returned"
    /\ timeouts
    /\ Len(wire) = 12
    /\ wire = Cmds(prog)

\* C34: when a high-level action returns, the last commanded Z is its safe
\* height: the safe_z of its labware, or the caller's z_safe in
\* current-position mode.
C34_EndsAtSafeHeight ==
    (op.kind \in ChorKinds /\ status = "returned") => lastZ = Some(SafeZ(op))

\* A transfer returned with the lift to the destination plate's safe height
\* as its last line.
C34_Witness ==
    /\ status = "returned"
    /\ op.kind = "transfer_volume"
    /\ lastZ = Some(158000)
    /\ Last(wire) = <<G1, <<"Z", 158000>>, <<"F", 300>>>>

\* The next statement of the call writes a move to an absolute target: a G1
\* line that is not the move of a move_relative.
AbsoluteMoveNext ==
    /\ AtStatement
    /\ prog[pc].k = "send"
    /\ IsG1(prog[pc].cmd)
    /\ (pc = 1 \/ prog[pc - 1].cmd # <<G91>>)

\* C35: whenever a high-level action is about to write a move to an
\* absolute target, the last mode command written to the firmware, by this
\* call or any call before it, is G90.
C35_AbsoluteMovesInAbsoluteMode ==
    (op.kind \in ChorKinds /\ AbsoluteMoveNext) => fwMode = "abs"

\* An aspirate is about to write its last lift after the relative stroke.
C35_Witness ==
    /\ op.kind = "aspirate"
    /\ AbsoluteMoveNext
    /\ pc = Len(prog)
    /\ \E i \in 1..Len(wire) : wire[i] = <<G91>>
    /\ fwMode = "abs"

\* C37 as stated: every plunger target transfer_volume writes lies within
\* the bounds u_min and u_max of its syringe.
C37_PlungerWithinBounds ==
    op.kind = "transfer_volume" =>
        \A i \in ULines(wire) :
            LET u == PartOf(wire[i], "U")
                syr == Resolved(op)
            IN /\ (IsNone(syr.u_min) \/ u >= syr.u_min[1])
               /\ (IsNone(syr.u_max) \/ u <= syr.u_max[1])

\* C40 as stated: a transfer that is over without a firmware error, and
\* that wrote the plunger pull (its second plunger line), wrote the push
\* back to the baseline (its third) too.
C40_PullThenPush ==
    (op.kind = "transfer_volume" /\ status \in {"returned", "raised"} /\ ~sawError
        /\ Cardinality(ULines(wire)) >= 2) => Cardinality(ULines(wire)) = 3

\* The Z lines a call wrote right before a plunger line or the G91 of a
\* plunger stroke: its descents to the working height.
WorkingDescents(w) ==
    { i \in 1..(Len(w) - 1) : IsZ(w[i]) /\ (IsU(w[i + 1]) \/ w[i + 1] = <<G91>>) }

\* C33 as stated: the working height an addressed aspirate or dispense
\* descends to is the aspirate_z (dispense_z) of the labware type whenever
\* it is set, 0 included, and the bottom_z only when it is unset; for
\* transfer_volume, whose plate sets neither, the bottom_z.
C33_WorkingHeight ==
    /\ (op.kind \in {"aspirate", "dispense"} /\ AddressedMode(op)) =>
          \A i \in WorkingDescents(wire) : PartOf(wire[i], "Z") = WorkZ(op)
    /\ op.kind = "transfer_volume" =>
          \A i \in WorkingDescents(wire) : PartOf(wire[i], "Z") = LABWARE_48WELL_10MM.bottom_z

\* The next statement of the call writes a move in X or Y; for
\* drop_tip_scrape the second such move is the scrape stroke.
LateralNext == AtStatement /\ prog[pc].k = "send" /\ IsXY(prog[pc].cmd)
ScrapeNext == op.kind = "drop_tip_scrape" /\ \E j \in 1..Len(wire) : IsXY(wire[j])

\* The height of the head: the home position Z = 0 until a Z is commanded.
ZNow == IF IsNone(lastZ) THEN 0 ELSE lastZ[1]

\* While every call since homing was an addressed action that returned, an
\* action of `calls` writes its XY move, the scrape stroke excepted, with
\* the last commanded Z at or above the safe height of its labware.
LateralAtSafeHeight(calls) ==
    (hist.clean /\ op \in calls /\ LateralNext /\ ~ScrapeNext) => ZNow <= SafeZ(op)

\* C36 as stated: for the addressed actions on every registered labware
\* type.
C36_Original == LateralAtSafeHeight({ o \in SeqArgs : AddressedCall(o) })

PlateOrBeaker(o) ==
    o.kind \in {"aspirate", "dispense"} =>
        o.labware_type \in {LABWARE_48WELL_10MM, LABWARE_BEAKER_1WELL}

\* C36 as amended: for pick_up_tip, drop_tip_scrape, transfer_volume and
\* for addressed aspirate and dispense on the 48-well plate or the beaker;
\* the calls before it may be any addressed action that returned.
C36_LateralAtSafeHeight ==
    LateralAtSafeHeight({ o \in SeqArgs : AddressedCall(o) /\ PlateOrBeaker(o) })

\* After a call left the head at the plate's safe height 158, an aspirate
\* on the plate is about to write its XY move.
C36_Witness ==
    /\ hist.clean
    /\ op.kind = "aspirate" /\ AddressedCall(op) /\ op.labware_type = LABWARE_48WELL_10MM
    /\ LateralNext
    /\ lastZ = Some(158000)
    /\ fwMode = "abs"

\* C39: when a dispense of volume v returns right after an aspirate of the
\* same volume with the same syringe returned, the aspirate moved the
\* plunger by +v * u_per_ul and the dispense by -v * u_per_ul, both as
\* relative moves and neither with an absolute plunger target: the two
\* deltas sum to zero.
C39_AspirateDispenseNetZero ==
    ( /\ op.kind = "dispense" /\ status = "returned"
      /\ ~IsNone(hist.prev)
      /\ hist.prev[1].volume_ul = op.volume_ul
      /\ hist.prev[1].syringe = op.syringe ) =>
        /\ hist.prev[1].travel = op.volume_ul * Resolved(op).u_per_ul
        /\ RelativeTravel(wire) = 0 - op.volume_ul * Resolved(op).u_per_ul
        /\ hist.prev[1].travel + RelativeTravel(wire) = 0
        /\ ~hist.prev[1].absolute
        /\ AbsoluteStrokes(wire) = {}

\* A dispense of 50 uL at the current position returned after an aspirate
\* of 50 uL: +3.0 then -3.0.
C39_Witness ==
    /\ op.kind = "dispense" /\ status = "returned" /\ ~AddressedCall(op)
    /\ op.volume_ul = 50
    /\ hist.prev # None
    /\ hist.prev[1].volume_ul = 50
    /\ hist.prev[1].travel = 3000
    /\ RelativeTravel(wire) = -3000

\* Every wait of the call in progress has a positive timeout.
Positive(t) == ~IsNone(t) /\ t[1] > 0
BoundedCall ==
    \A i \in 1..Len(prog) : (prog[i].k = "send" /\ prog[i].wait) => Positive(prog[i].to)

CallOver == status \in {"returned", "raised"}

\* C31 as stated: a call of a primitive that is running is eventually over,
\* whatever its timeout.
C31_Original == (status = "running") ~> CallOver

\* C31 as amended: a call of a primitive whose timeouts are all positive is
\* eventually over, whatever the firmware sends or fails to send, and a
\* wait that ended by timeout ended at the first read that returned after
\* the timeout had elapsed, at most one serial timeout after it.
C31_BoundedWait ==
    /\ (status = "running" /\ BoundedCall) ~> CallOver
    /\ [](sstat = "timeout" =>
            /\ Positive(waitTo)
            /\ clock - start > waitTo[1]
            /\ clock - start <= waitTo[1] + SerialTimeout)

\* dwell(0.2) against a silent firmware: the wait for G4 P200 ended by
\* timeout at the sixth empty read, 6 s after it began (timeout 5.2 s).
C31_Witness ==
    /\ op.kind = "dwell" /\ op.ms = 200
    /\ sstat = "timeout"
    /\ waitTo = Some(200 + DwellGrace)
    /\ reads = << <<>> >>
    /\ clock - start = 6000

\* The call was rejected by the check of the travel, before any command.
RejectedByTravel ==
    /\ prog = << Raise("ValueError: U travel exceeds syringe u_max") >>
    /\ wire = <<>>

\* C38 as amended: transfer_volume rejects every volume that is more than
\* one unit in the last place above the syringe's max_volume_ul before any
\* command is sent, and accepts max_volume_ul.
C38_RejectsBeyondRounding ==
    (op.kind = "transfer_volume_double" /\ status # "idle") =>
        /\ fgt(op.volume_ul, Ulps(Syringe_1ml_double.max_volume_ul, 1)) => RejectedByTravel
        /\ op.volume_ul = Syringe_1ml_double.max_volume_ul =>
              /\ Len(prog) > 1
              /\ status = "returned" => wire = Cmds(prog)

\* The volume two units in the last place above max_volume_ul was rejected
\* with nothing written.
C38_Witness ==
    /\ op.kind = "transfer_volume_double"
    /\ op.volume_ul = Ulps(Syringe_1ml_double.max_volume_ul, 2)
    /\ status = "raised"
    /\ err = "ValueError: U travel exceeds syringe u_max"
    /\ wire = <<>>

\* C38 as stated: transfer_volume rejects every volume greater than the
\* syringe's max_volume_ul before any command is sent, and accepts
\* max_volume_ul.
C38_RejectsAboveMaxVolume ==
    (op.kind = "transfer_volume_double" /\ status # "idle") =>
        /\ fgt(op.volume_ul, Syringe_1ml_double.max_volume_ul) =>
              /\ prog = << Raise("ValueError: U travel exceeds syringe u_max") >>
              /\ wire = <<>>
        /\ op.volume_ul = Syringe_1ml_double.max_volume_ul =>
              /\ Len(prog) > 1
              /\ status = "returned" => wire = Cmds(prog)

============================================================================
